---------------------------- MODULE Spec2Model ----------------------------
(***************************************************************************)
(* The metro track / signal / reservation engine of src/metro_map.h.      *)
(*                                                                         *)
(* One metro cell is the 16-bit word m8 of a tile.  Every accessor of      *)
(* metro_map.h is an operator from words to words (or to values), written  *)
(* statement by statement from the C++; the actions call them the way a    *)
(* caller that respects the documented preconditions (@pre) would.         *)
(*                                                                         *)
(* assert() is modelled as in a build with assertions enabled: a tripped   *)
(* assertion aborts the program, leaving the word as written so far.       *)
(***************************************************************************)
EXTENDS Integers, FiniteSets, Sequences, TLC

VARIABLES
    m8,        \* the 16-bit metro word of the cell (Tile::m8())
    aborted,   \* TRUE once an assert() inside an accessor has tripped
    last,      \* the last call: [op, arg, arg2, ret] (ret is FALSE for a void call;
               \* arg2 of SetMetroTrackBits is 1 when the cell had signals before the call)
    grants,    \* per track: successful TryMetroReserveTrack calls in the current run of Try calls
    cyc,       \* reserve / release cycle followed on one track: [t, st]
    lastCall,  \* signalled double track: kind of the last reservation call naming each track
    toggle,    \* SetMetroHasSignals(true) then (false) in a row: [st, signalled, tracks, res] before the first
    race,      \* two callers inside TryMetroReserveTrack: [pc, t, res, ret] per caller, and what was seen
    tile,      \* the words of a tile that hold its metro owner: [tt, type6, m1, m2, m6, m7]
    cell,      \* all the words of a tile: [tt, type6, m1, m2, m3, m4, m5, m6, m7, m8]
    assoc,     \* the tile types for which MayHaveAssociatedTile is true
    index      \* the records at one tile index, by tile type (Tile::GetByType)

vars == <<m8, aborted, last, grants, cyc, lastCall, toggle, race, tile, cell, assoc, index>>

\* what the calls on the metro word leave alone
otherVars == <<race, tile, cell, assoc, index>>

(***************************************************************************)
(* Bounds of the model.                                                    *)
(***************************************************************************)
\* rail types offered to SetMetroRailType are 0..MaxRailType
MaxRailType == 1

(***************************************************************************)
(* Enumerations (track_type.h, signal_type.h).                             *)
(***************************************************************************)
TRACK_X == 0
TRACK_Y == 1
TRACK_UPPER == 2
TRACK_LOWER == 3
TRACK_LEFT == 4
TRACK_RIGHT == 5

Tracks == TRACK_X .. TRACK_RIGHT

TRACK_BIT_NONE == 0
TRACK_BIT_X == 1
TRACK_BIT_Y == 2
TRACK_BIT_UPPER == 4
TRACK_BIT_LOWER == 8
TRACK_BIT_LEFT == 16
TRACK_BIT_RIGHT == 32
TRACK_BIT_HORZ == 12
TRACK_BIT_VERT == 48
\* the three-track sets: upper+left+right, lower+left+right, upper+lower+left, upper+lower+right
TRACK_BIT_N == 52
TRACK_BIT_U == 56
TRACK_BIT_C == 28
TRACK_BIT_RC == 44

\* every value of the 6-bit track field
TrackBitsValues == 0 .. 63

DOUBLE_TRACK_DIR_HORZ == 0
DOUBLE_TRACK_DIR_VERT == 1

TRACK_RESERVATION_BOTH == 7

SIGTYPE_PBS == 4
SIGTYPE_PBS_ONEWAY == 5
PbsSignalTypes == {SIGTYPE_PBS, SIGTYPE_PBS_ONEWAY}

SIG_ELECTRIC == 0
SIG_SEMAPHORE == 1
SignalVariants == {SIG_ELECTRIC, SIG_SEMAPHORE}

SIGNAL_STATE_RED == 0
SIGNAL_STATE_GREEN == 1
SignalStates == {SIGNAL_STATE_RED, SIGNAL_STATE_GREEN}

\* TRACKDIR_X_NE .. TRACKDIR_RIGHT_S and TRACKDIR_X_SW .. TRACKDIR_RIGHT_N
Trackdirs == (0 .. 5) \cup (8 .. 13)

RailTypes == 0 .. MaxRailType

(***************************************************************************)
(* Enumerations (tile_type.h, company_type.h).                             *)
(***************************************************************************)
MP_CLEAR == 0
MP_RAILWAY == 1
MP_ROAD == 2
MP_HOUSE == 3
MP_TREES == 4
MP_STATION == 5
MP_WATER == 6
MP_VOID == 7
MP_INDUSTRY == 8
MP_TUNNELBRIDGE == 9
MP_OBJECT == 10

OWNER_TOWN == 15
OWNER_NONE == 16
OWNER_WATER == 17

(***************************************************************************)
(* Enumerations (road_map.h, water_map.h, road_type.h, direction_type.h).  *)
(***************************************************************************)
ROAD_TILE_NORMAL == 0
ROAD_TILE_DEPOT == 2

ROADSIDE_BARREN == 0
ROADSIDE_GRASS == 1
ROADSIDE_PAVED == 2
ROADSIDE_STREET_LIGHTS == 3
ROADSIDE_TREES == 5
ROADSIDE_GRASS_ROAD_WORKS == 6
ROADSIDE_PAVED_ROAD_WORKS == 7

Roadsides ==
    {ROADSIDE_BARREN, ROADSIDE_GRASS, ROADSIDE_PAVED, ROADSIDE_STREET_LIGHTS, ROADSIDE_TREES,
     ROADSIDE_GRASS_ROAD_WORKS, ROADSIDE_PAVED_ROAD_WORKS}

RTT_ROAD == 0
RTT_TRAM == 1

ROADTYPE_ROAD == 0
ROADTYPE_TRAM == 1
INVALID_ROADTYPE == 63

WBL_TYPE_BEGIN == 4
WBL_TYPE_COUNT == 4
WBL_LOCK_ORIENT_BEGIN == 0
WBL_LOCK_PART_BEGIN == 2
WBL_DEPOT_PART == 0
WBL_DEPOT_AXIS == 1

WATER_TILE_CLEAR == 0
WATER_TILE_COAST == 1
WATER_TILE_LOCK == 2
WATER_TILE_DEPOT == 3

WATER_CLASS_SEA == 0
WATER_CLASS_CANAL == 1
WATER_CLASS_RIVER == 2
WaterClasses == {WATER_CLASS_SEA, WATER_CLASS_CANAL, WATER_CLASS_RIVER}


(***************************************************************************)
(* Bitfield primitives (core/bitmath_func.hpp) on unsigned words.          *)
(***************************************************************************)
HasBit(x, y) == (x \div (2 ^ y)) % 2 = 1

GB(x, s, n) == (x \div (2 ^ s)) % (2 ^ n)

\* x &= ~(((1 << n) - 1) << s); x |= d << s   (every caller passes d < 2^n)
SB(x, s, n, d) == x - GB(x, s, n) * (2 ^ s) + d * (2 ^ s)

\* SB on a word of the given width with a d that may not fit n bits: d << s is
\* or-ed in unmasked and the result is cut to the width of the word (the
\* callers below pass a d whose bits beyond n fall outside the word)
SBTrunc(x, s, n, d, width) == (x - GB(x, s, n) * (2 ^ s) + d * (2 ^ s)) % (2 ^ width)

AssignBit(x, y, value) == SB(x, y, 1, IF value THEN 1 ELSE 0)

\* a & b on track bits
BitAnd(a, b) ==
    LET bit(i) == IF HasBit(a, i) /\ HasBit(b, i) THEN 2 ^ i ELSE 0
    IN  bit(0) + bit(1) + bit(2) + bit(3) + bit(4) + bit(5) + bit(6) + bit(7)

\* a | b on track bits
BitOr(a, b) == a + b - BitAnd(a, b)

\* a & ~b on track bits
BitClear(a, b) == a - BitAnd(a, b)

\* a & b on a 16-bit word and a single-bit mask b
BitAnd16(a, b) == IF (a \div b) % 2 = 1 THEN b ELSE 0

(***************************************************************************)
(* Track helpers (track_func.h).                                           *)
(***************************************************************************)
TrackToTrackBits(track) == 2 ^ track

TrackToTrackdir(track) == track

ReverseTrackdir(td) == IF td >= 8 THEN td - 8 ELSE td + 8

\* FindFirstBit of a non-empty track set
FindFirstBit(b) == CHOOSE i \in 0 .. 7 : HasBit(b, i) /\ \A j \in 0 .. 7 : HasBit(b, j) => i <= j

\* no track, one track, or one of the two parallel pairs: anything else overlaps
TracksOverlap(bits) ==
    /\ bits # TRACK_BIT_NONE
    /\ BitClear(bits, 2 ^ FindFirstBit(bits)) # TRACK_BIT_NONE
    /\ bits # TRACK_BIT_HORZ
    /\ bits # TRACK_BIT_VERT


INVALID_TRACK == 255

\* RemoveFirstTrack(&b): the track returned
RemoveFirstTrack(b) == IF b # TRACK_BIT_NONE THEN FindFirstBit(b) ELSE INVALID_TRACK

\* RemoveFirstTrack(&b): what is left in b
RemoveFirstTrackRest(b) == IF b # TRACK_BIT_NONE THEN BitClear(b, 2 ^ FindFirstBit(b)) ELSE b

(***************************************************************************)
(* metro_map.h: mode bits, rail type, track.                               *)
(***************************************************************************)
InnerMetroHasSignals(w) == HasBit(w, 15)

InnerSetMetroHasSignals(w, signals) == AssignBit(w, 15, signals)

InnerMetroHasDoubleTrack(w) == HasBit(w, 14)

InnerSetMetroHasDoubleTrack(w, dt) == AssignBit(w, 14, dt)

MetroHasSignals(w) == InnerMetroHasSignals(w)

GetMetroRailType(w) == GB(w, 6, 6)

\* SetMetroRailType writing a field one bit too wide
SetMetroRailType_SevenBits(w, r) == SB(w, 6, 7, r)

SetMetroRailType(w, r) == SB(w, 6, 6, r)

GetMetroTrack(w) == GB(w, 3, 3)

SetMetroTrack(w, tr) == SB(w, 3, 3, tr)

GetMetroDoubleTrackDirection(w) == IF HasBit(w, 3) THEN DOUBLE_TRACK_DIR_VERT ELSE DOUBLE_TRACK_DIR_HORZ

SetMetroDoubleTrackDirection(w, d) == AssignBit(w, 3, d = DOUBLE_TRACK_DIR_VERT)

GetMetroTrackBits(w) ==
    IF InnerMetroHasSignals(w)
    THEN IF InnerMetroHasDoubleTrack(w)
         THEN IF GetMetroDoubleTrackDirection(w) = DOUBLE_TRACK_DIR_HORZ
              THEN TRACK_BIT_HORZ ELSE TRACK_BIT_VERT
         ELSE TrackToTrackBits(GetMetroTrack(w))
    ELSE GB(w, 0, 6)

HasMetroTrack(w, track) == HasBit(GetMetroTrackBits(w), track)

\* the eight values the switch of SetMetroTrackBits has a case for
RecognisedTrackBits ==
    {TRACK_BIT_X, TRACK_BIT_Y, TRACK_BIT_UPPER, TRACK_BIT_LOWER,
     TRACK_BIT_LEFT, TRACK_BIT_RIGHT, TRACK_BIT_HORZ, TRACK_BIT_VERT}

\* SetMetroTrackBits whose single-track cases leave the double-track flag as it
\* is (no InnerSetMetroHasDoubleTrack(t, false) at lines 221-242)
SetMetroTrackBits_KeepDoubleTrack(w, b) ==
    IF InnerMetroHasSignals(w)
    THEN CASE b = TRACK_BIT_X     -> SetMetroTrack(w, TRACK_X)
           [] b = TRACK_BIT_Y     -> SetMetroTrack(w, TRACK_Y)
           [] b = TRACK_BIT_UPPER -> SetMetroTrack(w, TRACK_UPPER)
           [] b = TRACK_BIT_LOWER -> SetMetroTrack(w, TRACK_LOWER)
           [] b = TRACK_BIT_LEFT  -> SetMetroTrack(w, TRACK_LEFT)
           [] b = TRACK_BIT_RIGHT -> SetMetroTrack(w, TRACK_RIGHT)
           [] b = TRACK_BIT_HORZ  ->
                SetMetroDoubleTrackDirection(InnerSetMetroHasDoubleTrack(w, TRUE), DOUBLE_TRACK_DIR_HORZ)
           [] b = TRACK_BIT_VERT  ->
                SetMetroDoubleTrackDirection(InnerSetMetroHasDoubleTrack(w, TRUE), DOUBLE_TRACK_DIR_VERT)
           [] OTHER               -> SB(InnerSetMetroHasSignals(w, FALSE), 0, 6, b)
    ELSE SB(w, 0, 6, b)

\* SetMetroTrackBits whose default case keeps the has-signals flag (no
\* InnerSetMetroHasSignals(t, false) at line 253)
SetMetroTrackBits_NoDowngrade(w, b) ==
    IF InnerMetroHasSignals(w)
    THEN CASE b = TRACK_BIT_X     -> SetMetroTrack(InnerSetMetroHasDoubleTrack(w, FALSE), TRACK_X)
           [] b = TRACK_BIT_Y     -> SetMetroTrack(InnerSetMetroHasDoubleTrack(w, FALSE), TRACK_Y)
           [] b = TRACK_BIT_UPPER -> SetMetroTrack(InnerSetMetroHasDoubleTrack(w, FALSE), TRACK_UPPER)
           [] b = TRACK_BIT_LOWER -> SetMetroTrack(InnerSetMetroHasDoubleTrack(w, FALSE), TRACK_LOWER)
           [] b = TRACK_BIT_LEFT  -> SetMetroTrack(InnerSetMetroHasDoubleTrack(w, FALSE), TRACK_LEFT)
           [] b = TRACK_BIT_RIGHT -> SetMetroTrack(InnerSetMetroHasDoubleTrack(w, FALSE), TRACK_RIGHT)
           [] b = TRACK_BIT_HORZ  ->
                SetMetroDoubleTrackDirection(InnerSetMetroHasDoubleTrack(w, TRUE), DOUBLE_TRACK_DIR_HORZ)
           [] b = TRACK_BIT_VERT  ->
                SetMetroDoubleTrackDirection(InnerSetMetroHasDoubleTrack(w, TRUE), DOUBLE_TRACK_DIR_VERT)
           [] OTHER               -> SB(w, 0, 6, b)
    ELSE SB(w, 0, 6, b)

SetMetroTrackBits(w, b) ==
    IF InnerMetroHasSignals(w)
    THEN CASE b = TRACK_BIT_X     -> SetMetroTrack(InnerSetMetroHasDoubleTrack(w, FALSE), TRACK_X)
           [] b = TRACK_BIT_Y     -> SetMetroTrack(InnerSetMetroHasDoubleTrack(w, FALSE), TRACK_Y)
           [] b = TRACK_BIT_UPPER -> SetMetroTrack(InnerSetMetroHasDoubleTrack(w, FALSE), TRACK_UPPER)
           [] b = TRACK_BIT_LOWER -> SetMetroTrack(InnerSetMetroHasDoubleTrack(w, FALSE), TRACK_LOWER)
           [] b = TRACK_BIT_LEFT  -> SetMetroTrack(InnerSetMetroHasDoubleTrack(w, FALSE), TRACK_LEFT)
           [] b = TRACK_BIT_RIGHT -> SetMetroTrack(InnerSetMetroHasDoubleTrack(w, FALSE), TRACK_RIGHT)
           [] b = TRACK_BIT_HORZ  ->
                SetMetroDoubleTrackDirection(InnerSetMetroHasDoubleTrack(w, TRUE), DOUBLE_TRACK_DIR_HORZ)
           [] b = TRACK_BIT_VERT  ->
                SetMetroDoubleTrackDirection(InnerSetMetroHasDoubleTrack(w, TRUE), DOUBLE_TRACK_DIR_VERT)
           [] OTHER               -> SB(InnerSetMetroHasSignals(w, FALSE), 0, 6, b)
    ELSE SB(w, 0, 6, b)

(***************************************************************************)
(* metro_map.h: reservation.                                               *)
(***************************************************************************)
\* lines 289-299: the 3-bit field of bits 12-14; a signalled single-track cell
\* whose bit 2 is clear also ends up here (the if at 286 has no else)
ReservationFieldTrackBits(w) ==
    LET track_b == GB(w, 12, 3)
        track_bits == GB(w, 0, 6)
    IN  IF track_b = 0 THEN TRACK_BIT_NONE
        ELSE IF track_b = TRACK_RESERVATION_BOTH
             THEN IF BitAnd(track_bits, TRACK_BIT_VERT) # TRACK_BIT_VERT THEN TRACK_BIT_HORZ
                  ELSE IF BitAnd(track_bits, TRACK_BIT_HORZ) # TRACK_BIT_HORZ THEN TRACK_BIT_VERT
                  ELSE BitOr(TRACK_BIT_HORZ, TRACK_BIT_VERT)
             ELSE TrackToTrackBits(track_b - 1)

GetMetroRailReservationTrackBits(w) ==
    IF InnerMetroHasSignals(w) /\ InnerMetroHasDoubleTrack(w)
    THEN IF GetMetroDoubleTrackDirection(w) = DOUBLE_TRACK_DIR_HORZ
         THEN (IF HasBit(w, 2) THEN TRACK_BIT_UPPER ELSE 0) + (IF HasBit(w, 5) THEN TRACK_BIT_LOWER ELSE 0)
         ELSE (IF HasBit(w, 2) THEN TRACK_BIT_LEFT ELSE 0) + (IF HasBit(w, 5) THEN TRACK_BIT_RIGHT ELSE 0)
    ELSE IF InnerMetroHasSignals(w) /\ HasBit(w, 2)
         THEN TrackToTrackBits(GetMetroTrack(w))
         ELSE ReservationFieldTrackBits(w)

\* lines 311-326: the switch that folds a three-track set into one track
FoldReservation(b) ==
    CASE b = TRACK_BIT_N  -> TRACK_BIT_UPPER
      [] b = TRACK_BIT_U  -> TRACK_BIT_LOWER
      [] b = TRACK_BIT_C  -> TRACK_BIT_LEFT
      [] b = TRACK_BIT_RC -> TRACK_BIT_RIGHT
      [] OTHER            -> b

\* line 327: assert(!TracksOverlap(b)) trips
SetMetroTrackReservationFails(b) == TracksOverlap(FoldReservation(b))

\* SetMetroTrackReservation without the has-signals branch of lines 328-340:
\* the 3-bit field of bits 12-14 is written in every mode
SetMetroTrackReservation_FieldInEveryMode(w, b0) ==
    LET b == FoldReservation(b0)
        track == RemoveFirstTrack(b)
        rest == RemoveFirstTrackRest(b)
        w1 == SB(w, 12, 3, IF track = INVALID_TRACK THEN 0 ELSE track + 1)
    IN  IF rest # TRACK_BIT_NONE THEN SB(w1, 12, 3, TRACK_RESERVATION_BOTH) ELSE w1

\* lines 328-343, for a b that passes the assertion
SetMetroTrackReservation(w, b0) ==
    LET b == FoldReservation(b0)
    IN  IF InnerMetroHasSignals(w)
        THEN IF InnerMetroHasDoubleTrack(w)
             THEN LET w1 == IF BitAnd(b, TRACK_BIT_RIGHT) # 0 \/ BitAnd(b, TRACK_BIT_LOWER) # 0
                            THEN AssignBit(w, 5, TRUE) ELSE w
                  IN  IF BitAnd(b, TRACK_BIT_LEFT) = 0 /\ BitAnd(b, TRACK_BIT_UPPER) = 0
                      THEN AssignBit(w1, 2, FALSE)
                      ELSE AssignBit(w1, 2, b # TRACK_BIT_NONE)
             ELSE AssignBit(w, 2, b # TRACK_BIT_NONE)
        ELSE LET track == RemoveFirstTrack(b)
                 rest == RemoveFirstTrackRest(b)
                 w1 == SB(w, 12, 3, IF track = INVALID_TRACK THEN 0 ELSE track + 1)
             IN  IF rest # TRACK_BIT_NONE THEN SB(w1, 12, 3, TRACK_RESERVATION_BOTH) ELSE w1

\* TryMetroReserveTrack without the "already reserved" test of line 358
TryMetroReserveTrack_NoReservedTest(w, t) ==
    LET bits == TrackToTrackBits(t)
        res == GetMetroRailReservationTrackBits(w)
    IN  IF TracksOverlap(BitOr(res, bits)) THEN [w |-> w, ret |-> FALSE]
        ELSE [w |-> SetMetroTrackReservation(w, BitOr(res, bits)), ret |-> TRUE]

\* TryMetroReserveTrack writing the reservation before the crossing test of line 360
TryMetroReserveTrack_WriteBeforeTest(w, t) ==
    LET bits == TrackToTrackBits(t)
        res == GetMetroRailReservationTrackBits(w)
    IN  IF BitAnd(res, bits) # TRACK_BIT_NONE THEN [w |-> w, ret |-> FALSE]
        ELSE [w |-> SetMetroTrackReservation(w, BitOr(res, bits)),
              ret |-> ~TracksOverlap(BitOr(res, bits))]

\* the word after the call, and the value returned
TryMetroReserveTrack(w, t) ==
    LET bits == TrackToTrackBits(t)
        res == GetMetroRailReservationTrackBits(w)
    IN  IF BitAnd(res, bits) # TRACK_BIT_NONE THEN [w |-> w, ret |-> FALSE]
        ELSE IF TracksOverlap(BitOr(res, bits)) THEN [w |-> w, ret |-> FALSE]
        ELSE [w |-> SetMetroTrackReservation(w, BitOr(res, bits)), ret |-> TRUE]

\* the word after the call, and whether the assertion of SetMetroTrackReservation tripped
UnreserveMetroTrack(w, t) ==
    LET res == BitClear(GetMetroRailReservationTrackBits(w), TrackToTrackBits(t))
    IN  IF SetMetroTrackReservationFails(res)
        THEN [w |-> w, failed |-> TRUE]
        ELSE [w |-> SetMetroTrackReservation(w, res), failed |-> FALSE]

\* SetMetroHasSignals without the SetMetroTrackBits(tile, tracks) of line 393
SetMetroHasSignals_NoTrackRewrite(w, signals) ==
    LET reservation == GetMetroRailReservationTrackBits(w)
        w1 == InnerSetMetroHasSignals(w, signals)
    IN  IF SetMetroTrackReservationFails(reservation)
        THEN [w |-> w1, failed |-> TRUE]
        ELSE [w |-> SetMetroTrackReservation(w1, reservation), failed |-> FALSE]

\* SetMetroHasSignals that rewrites the track bits (line 393) before it sets
\* the flag (line 392)
SetMetroHasSignals_FlagLast(w, signals) ==
    LET reservation == GetMetroRailReservationTrackBits(w)
        tracks == GetMetroTrackBits(w)
        w1 == SetMetroTrackBits(w, tracks)
        w2 == InnerSetMetroHasSignals(w1, signals)
    IN  IF SetMetroTrackReservationFails(reservation)
        THEN [w |-> w2, failed |-> TRUE]
        ELSE [w |-> SetMetroTrackReservation(w2, reservation), failed |-> FALSE]

\* the word after the call (as far as it got), and whether the assertion of
\* SetMetroTrackReservation tripped
SetMetroHasSignals(w, signals) ==
    LET reservation == GetMetroRailReservationTrackBits(w)
        tracks == GetMetroTrackBits(w)
        w1 == InnerSetMetroHasSignals(w, signals)
        w2 == SetMetroTrackBits(w1, tracks)
    IN  IF SetMetroTrackReservationFails(reservation)
        THEN [w |-> w2, failed |-> TRUE]
        ELSE [w |-> SetMetroTrackReservation(w2, reservation), failed |-> FALSE]

(***************************************************************************)
(* metro_map.h: signal attributes.                                         *)
(***************************************************************************)
GetMetroSignalType(w) == IF HasBit(w, 13) THEN SIGTYPE_PBS ELSE SIGTYPE_PBS_ONEWAY

SetMetroSignalType(w, s) == AssignBit(w, 13, s = SIGTYPE_PBS)

IsMetroOnewaySignal(w) == ~HasBit(w, 13)

\* CycleMetroSignalSide that sets bit 0 instead of inverting it
CycleMetroSignalSide_SetOnly(w) == AssignBit(w, 0, TRUE)

CycleMetroSignalSide(w) == AssignBit(w, 0, ~HasBit(w, 0))

GetMetroSignalVariant(w) == GB(w, 12, 1)

SetMetroSignalVariant(w, v) == SB(w, 12, 1, v)

\* GetMetroDoubleTrackDirAsTrack adding 1 + direction instead of shifting by it
GetMetroDoubleTrackDirAsTrack_NoShift(w) ==
    (1 + GetMetroDoubleTrackDirection(w)) + (IF HasBit(w, 4) THEN 1 ELSE 0)

GetMetroDoubleTrackDirAsTrack(w) ==
    (2 ^ (1 + GetMetroDoubleTrackDirection(w))) + (IF HasBit(w, 4) THEN 1 ELSE 0)

HasMetroSignalOnTrack(w, track) ==
    IF InnerMetroHasDoubleTrack(w)
    THEN MetroHasSignals(w) /\ GetMetroDoubleTrackDirAsTrack(w) = track
    ELSE MetroHasSignals(w) /\ GetMetroTrack(w) = track

HasMetroSignalOnTrackdir(w, trackdir) ==
    IF ~MetroHasSignals(w) THEN FALSE
    ELSE LET track == IF InnerMetroHasDoubleTrack(w)
                      THEN GetMetroDoubleTrackDirAsTrack(w) ELSE GetMetroTrack(w)
         IN  IF HasBit(w, 0)
             THEN TrackToTrackdir(track) = trackdir
             ELSE TrackToTrackdir(track) = ReverseTrackdir(trackdir)

SetMetroSignalStateByTrackdir(w, trackdir, state) == AssignBit(w, 1, state = SIGNAL_STATE_GREEN)

TrackdirToTrack(trackdir) == trackdir % 8

\* GetMetroSignalStateByTrackdir without the has_signal test of line 551
GetMetroSignalStateByTrackdir_NoDirection(w, trackdir) ==
    IF HasBit(w, 1) THEN SIGNAL_STATE_GREEN ELSE SIGNAL_STATE_RED

GetMetroSignalStateByTrackdir(w, trackdir) ==
    IF HasMetroSignalOnTrackdir(w, trackdir) /\ HasBit(w, 1) THEN SIGNAL_STATE_GREEN ELSE SIGNAL_STATE_RED

\* line 550: the assertion of GetMetroSignalStateByTrackdir trips
GetMetroSignalStateByTrackdirFails(w, trackdir) == ~HasMetroSignalOnTrack(w, TrackdirToTrack(trackdir))

\* IsMetroTile holds for the cell: its tile is not MP_VOID
HasPbsMetroSignalOnTrackdir(w, td) == HasMetroSignalOnTrackdir(w, td)

\* the value returned, and whether the assertion of IsMetroOnewaySignal (line 442),
\* which the call evaluates on every metro tile, trips
HasOnewayMetroSignalBlockingTrackdir(w, td) ==
    [ret |-> IsMetroOnewaySignal(w) /\ HasMetroSignalOnTrackdir(w, ReverseTrackdir(td)),
     failed |-> ~MetroHasSignals(w)]

(***************************************************************************)
(* metro_map.h: TryMetroReserveTrack as two accesses of the word, the read *)
(* with its two tests (lines 356-360) and the write (line 361).            *)
(***************************************************************************)
\* the read and the tests without the "already reserved" test of line 358
TryMetroReserveTrack_ReadCheck_NoReservedTest(w, t) ==
    LET bits == TrackToTrackBits(t)
        res == GetMetroRailReservationTrackBits(w)
    IN  IF TracksOverlap(BitOr(res, bits)) THEN [go |-> FALSE, res |-> res]
        ELSE [go |-> TRUE, res |-> BitOr(res, bits)]

\* whether the call goes on to the write, and the local res it then holds
TryMetroReserveTrack_ReadCheck(w, t) ==
    LET bits == TrackToTrackBits(t)
        res == GetMetroRailReservationTrackBits(w)
    IN  IF BitAnd(res, bits) # TRACK_BIT_NONE THEN [go |-> FALSE, res |-> res]
        ELSE IF TracksOverlap(BitOr(res, bits)) THEN [go |-> FALSE, res |-> res]
        ELSE [go |-> TRUE, res |-> BitOr(res, bits)]

(***************************************************************************)
(* metro_map.cpp: the metro owner of a tile.  A tile is the record of the  *)
(* words the owner is kept in; type6 is bit 6 of Tile::type().  A record   *)
(* of an MP_STATION tile has the field stop in addition, which tells       *)
(* whether the station has rail or is a road stop (lines 50-55, 99-101).   *)
(***************************************************************************)
\* line 60 with > for >=
ClampOwner_AboveTown(owner) == IF owner > OWNER_TOWN THEN OWNER_NONE ELSE owner

\* line 60: an owner that is no company reads as OWNER_NONE
ClampOwner(owner) == IF owner >= OWNER_TOWN THEN OWNER_NONE ELSE owner

\* (Owner)(owner_bits - 1) in 8 bits, then line 60
OwnerOfBits(owner_bits) == ClampOwner((owner_bits - 1) % 256)

\* tile_map.h: the owner of the tile itself
GetTileOwner(tl) == GB(tl.m1, 0, 5)

\* a station tile with rail or with a road stop (tl.stop) has no metro owner
\* of its own: HasStationRail(tile) || IsAnyRoadStop(tile)
GetMetroTileOwner(tl) ==
    CASE tl.tt = MP_HOUSE -> ClampOwner(OWNER_TOWN)
      [] tl.tt = MP_STATION /\ tl.stop -> ClampOwner(GetTileOwner(tl))
      [] tl.tt = MP_INDUSTRY ->
            OwnerOfBits(GB(tl.m6, 6, 2) + (IF HasBit(tl.m1, 4) THEN 4 ELSE 0)
                                        + (IF tl.type6 THEN 8 ELSE 0))
      [] tl.tt = MP_ROAD -> OwnerOfBits(GB(tl.m6, 0, 2) + 4 * GB(tl.m7, 5, 2))
      [] tl.tt = MP_CLEAR -> OwnerOfBits(GB(tl.m7, 4, 4))
      [] tl.tt = MP_TUNNELBRIDGE -> OwnerOfBits(GB(tl.m2, 12, 4))
      [] OTHER -> OwnerOfBits(GB(tl.m6, 4, 4))

SetMetroTileOwner(tl, o) ==
    LET owner == IF o = OWNER_NONE THEN 0 ELSE (o + 1) % 256
    IN  CASE tl.tt = MP_HOUSE -> tl
          [] tl.tt = MP_INDUSTRY ->
                [tl EXCEPT !.m6 = SB(@, 6, 2, GB(owner, 0, 2)),
                           !.m1 = AssignBit(@, 4, HasBit(owner, 3)),
                           !.type6 = HasBit(owner, 4)]
          [] tl.tt = MP_ROAD ->
                [tl EXCEPT !.m6 = SB(@, 0, 2, GB(owner, 0, 2)),
                           !.m7 = SB(@, 5, 2, GB(owner, 2, 2))]
          [] tl.tt = MP_CLEAR -> [tl EXCEPT !.m7 = SBTrunc(@, 4, 4, owner, 8)]
          [] tl.tt = MP_TUNNELBRIDGE -> [tl EXCEPT !.m2 = SBTrunc(@, 12, 4, owner, 16)]
          [] OTHER -> [tl EXCEPT !.m6 = SBTrunc(@, 4, 4, owner, 8)]

UpdateMetroTileOwner(w, tl, o) ==
    IF GetMetroTrackBits(w) = TRACK_BIT_NONE THEN tl ELSE SetMetroTileOwner(tl, o)

(***************************************************************************)
(* tile_map.h, core/bitmath_func.hpp: what road_map.h and water_map.h call.*)
(* A tile is the record of its type tag and its words m1 .. m8.            *)
(***************************************************************************)
ToggleBit(x, y) == AssignBit(x, y, ~HasBit(x, y))

\* AB: add i to the n-bit field at s, within the field
AB(x, s, n, i) == SB(x, s, n, (GB(x, s, n) + i) % (2 ^ n))

ClrBit(x, y) == AssignBit(x, y, FALSE)

SetTileType(t, type) == [t EXCEPT !.tt = type]

SetTileOwner(t, o) == [t EXCEPT !.m1 = SB(@, 0, 5, o)]

MayHaveAssociatedTile(type) == type \in assoc

\* the road types of the model: one road type, one tram type
RoadTypeIsTram(rt) == rt = ROADTYPE_TRAM

GetRoadTramType(rt) == IF RoadTypeIsTram(rt) THEN RTT_TRAM ELSE RTT_ROAD

MayHaveRoad(t) == t.tt = MP_ROAD

(***************************************************************************)
(* road_map.h.                                                             *)
(***************************************************************************)
GetRoadTileType(t) == GB(t.m5, 6, 2)

IsNormalRoad(t) == GetRoadTileType(t) = ROAD_TILE_NORMAL

IsNormalRoadTile(t) == t.tt = MP_ROAD /\ IsNormalRoad(t)

GetRoadTypeTram(t) == GB(t.m8, 6, 6)

GetRoadOwner(t, rtt) ==
    IF rtt = RTT_ROAD
    THEN GB(IF IsNormalRoadTile(t) THEN t.m1 ELSE t.m7, 0, 5)
    ELSE LET o == GB(t.m3, 4, 4)
         IN  IF o = OWNER_TOWN THEN OWNER_NONE ELSE o

\* SetRoadOwner storing a tram owner as it is (no OWNER_NONE -> OWNER_TOWN of line 384)
SetRoadOwner_NoSubstitution(t, rtt, o) ==
    IF rtt = RTT_ROAD
    THEN IF IsNormalRoadTile(t)
         THEN [t EXCEPT !.m1 = SBTrunc(@, 0, 5, o, 8)]
         ELSE [t EXCEPT !.m7 = SBTrunc(@, 0, 5, o, 8)]
    ELSE [t EXCEPT !.m3 = SBTrunc(@, 4, 4, o, 8)]

SetRoadOwner(t, rtt, o) ==
    IF rtt = RTT_ROAD
    THEN IF IsNormalRoadTile(t)
         THEN [t EXCEPT !.m1 = SBTrunc(@, 0, 5, o, 8)]
         ELSE [t EXCEPT !.m7 = SBTrunc(@, 0, 5, o, 8)]
    ELSE [t EXCEPT !.m3 = SBTrunc(@, 4, 4, IF o = OWNER_NONE THEN OWNER_TOWN ELSE o, 8)]

IsOnSnowOrDesert(t) == HasBit(t.m7, 5)

ToggleSnowOrDesert(t) == [t EXCEPT !.m7 = ToggleBit(@, 5)]

GetRoadside(t) == GB(t.m6, 3, 3)

SetRoadside(t, s) == [t EXCEPT !.m6 = SB(@, 3, 3, s)]

HasRoadWorks(t) == GetRoadside(t) >= ROADSIDE_GRASS_ROAD_WORKS

GetRoadWorksCounter(t) == GB(t.m7, 0, 4)

\* IncreaseRoadWorksCounter with the test of line 594 made before line 592
IncreaseRoadWorksCounter_TestedBefore(t) ==
    [t |-> [t EXCEPT !.m7 = AB(@, 0, 4, 1)], ret |-> GB(t.m7, 0, 4) = 15]

\* the tile after the call, and the value returned
IncreaseRoadWorksCounter(t) ==
    LET t1 == [t EXCEPT !.m7 = AB(@, 0, 4, 1)]
    IN  [t |-> t1, ret |-> GB(t1.m7, 0, 4) = 15]

\* @pre !HasRoadWorks(t)
StartRoadWorks(t) ==
    IF GetRoadside(t) \in {ROADSIDE_BARREN, ROADSIDE_GRASS}
    THEN SetRoadside(t, ROADSIDE_GRASS_ROAD_WORKS)
    ELSE SetRoadside(t, ROADSIDE_PAVED_ROAD_WORKS)

\* TerminateRoadWorks without line 623
TerminateRoadWorks_CounterKept(t) ==
    SetRoadside(t, GetRoadside(t) - ROADSIDE_GRASS_ROAD_WORKS + ROADSIDE_GRASS)

\* @pre HasRoadWorks(t)
TerminateRoadWorks(t) ==
    LET t1 == SetRoadside(t, GetRoadside(t) - ROADSIDE_GRASS_ROAD_WORKS + ROADSIDE_GRASS)
    IN  [t1 EXCEPT !.m7 = SB(@, 0, 4, 0)]

SetRoadTypeRoad(t, rt) == [t EXCEPT !.m4 = SB(@, 0, 6, rt)]

SetRoadTypeTram(t, rt) == [t EXCEPT !.m8 = SB(@, 6, 6, rt)]

SetRoadType(t, rtt, rt) == IF rtt = RTT_TRAM THEN SetRoadTypeTram(t, rt) ELSE SetRoadTypeRoad(t, rt)

SetRoadTypes(t, road_rt, tram_rt) == SetRoadTypeTram(SetRoadTypeRoad(t, road_rt), tram_rt)

MakeRoadNormal(t, bits, road_rt, tram_rt, town, road, tram) ==
    LET t0 == IF ~MayHaveAssociatedTile(t.tt) THEN [t EXCEPT !.m8 = ClrBit(@, 14)] ELSE t
        t1 == SetTileOwner(SetTileType(t0, MP_ROAD), road)
        t2 == [t1 EXCEPT !.m2 = town,
                         !.m3 = IF tram_rt # INVALID_ROADTYPE THEN bits ELSE 0,
                         !.m5 = (IF road_rt # INVALID_ROADTYPE THEN bits ELSE 0) + ROAD_TILE_NORMAL * 64,
                         !.m6 = SB(@, 2, 4, 0),
                         !.m7 = 0]
    IN  SetRoadOwner(SetRoadTypes(t2, road_rt, tram_rt), RTT_TRAM, tram)

MakeRoadDepot(t, owner, depot_id, dir, rt) ==
    LET t1 == SetTileOwner(SetTileType(t, MP_ROAD), owner)
        t2 == [t1 EXCEPT !.m2 = depot_id,
                         !.m3 = 0,
                         !.m4 = INVALID_ROADTYPE,
                         !.m5 = ROAD_TILE_DEPOT * 64 + dir,
                         !.m6 = SB(@, 2, 4, 0),
                         !.m7 = owner,
                         !.m8 = INVALID_ROADTYPE * 64]
    IN  SetRoadOwner(SetRoadType(t2, GetRoadTramType(rt), rt), RTT_TRAM, owner)

(***************************************************************************)
(* water_map.h.                                                            *)
(***************************************************************************)
SetWaterTileType(t, type) == [t EXCEPT !.m5 = SB(@, WBL_TYPE_BEGIN, WBL_TYPE_COUNT, type)]

SetWaterClass(t, wc) == [t EXCEPT !.m1 = SB(@, 5, 2, wc)]

SetDockingTile(t, b) == [t EXCEPT !.m1 = AssignBit(@, 7, b)]

\* lines 652-656 and their copies: the guard of bit 14, then type, owner,
\* water class and docking flag
MakeWaterHeader(t, o, wc) ==
    LET t0 == IF ~MayHaveAssociatedTile(t.tt) THEN [t EXCEPT !.m8 = ClrBit(@, 14)] ELSE t
    IN  SetDockingTile(SetWaterClass(SetTileOwner(SetTileType(t0, MP_WATER), o), wc), FALSE)

\* lines 657-664 and their copies: the words m2 .. m8 of a water tile
MakeWaterWords(t, m2v, m4v, m5v, type) ==
    LET t1 == SetWaterTileType([t EXCEPT !.m2 = m2v, !.m3 = 0, !.m4 = m4v, !.m5 = m5v], type)
    IN  [t1 EXCEPT !.m6 = SB(@, 2, 4, 0), !.m7 = 0, !.m8 = BitAnd16(@, 2 ^ 14)]

MakeShore(t) ==
    MakeWaterWords(MakeWaterHeader(t, OWNER_WATER, WATER_CLASS_SEA), 0, 0, 0, WATER_TILE_COAST)

MakeWater(t, o, wc, random_bits) ==
    MakeWaterWords(MakeWaterHeader(t, o, wc), 0, random_bits, 0, WATER_TILE_CLEAR)

MakeShipDepot(t, o, did, part, a, original_water_class) ==
    MakeWaterWords(MakeWaterHeader(t, o, original_water_class), did, 0,
                   part * (2 ^ WBL_DEPOT_PART) + a * (2 ^ WBL_DEPOT_AXIS), WATER_TILE_DEPOT)

MakeLockTile(t, o, part, dir, original_water_class) ==
    MakeWaterWords(MakeWaterHeader(t, o, original_water_class), 0, 0,
                   part * (2 ^ WBL_LOCK_PART_BEGIN) + dir * (2 ^ WBL_LOCK_ORIENT_BEGIN), WATER_TILE_LOCK)

(***************************************************************************)
(* depot_map.h: the depot at a tile index.  The records at the index are   *)
(* a function of the tile type; Tile::GetByType gives the record of a type *)
(* or a tile that is not valid.  A rail or station record is [tt, depot],  *)
(* depot telling whether it is a rail depot or a hangar; a road or water   *)
(* record has the words the calls of road_map.h and water_map.h give it.   *)
(***************************************************************************)
INVALID_TILE == [tt |-> MP_VOID]

IsValid(t) == t # INVALID_TILE

\* the tile types GetDepotTile looks for, in its order
DepotSearchOrder == <<MP_RAILWAY, MP_ROAD, MP_WATER, MP_STATION>>

DepotSearchTypes == {DepotSearchOrder[i] : i \in 1 .. Len(DepotSearchOrder)}

NoRecords == [type \in DepotSearchTypes |-> INVALID_TILE]

GetByType(ix, type) == ix[type]

IsRailDepotTile(t) == t.tt = MP_RAILWAY /\ t.depot

IsRoadDepot(t) == GetRoadTileType(t) = ROAD_TILE_DEPOT

IsRoadDepotTile(t) == t.tt = MP_ROAD /\ IsRoadDepot(t)

GetWaterTileType(t) == GB(t.m5, WBL_TYPE_BEGIN, WBL_TYPE_COUNT)

IsShipDepot(t) == GetWaterTileType(t) = WATER_TILE_DEPOT

IsShipDepotTile(t) == t.tt = MP_WATER /\ IsShipDepot(t)

IsHangarTile(t) == t.tt = MP_STATION /\ t.depot

IsDepotTile(ix) ==
    \/ IsRailDepotTile(GetByType(ix, MP_RAILWAY))
    \/ IsRoadDepotTile(GetByType(ix, MP_ROAD))
    \/ IsShipDepotTile(GetByType(ix, MP_WATER))
    \/ IsHangarTile(GetByType(ix, MP_STATION))

\* @pre IsDepotTile(ix): the first record of the search order that is valid
GetDepotTile(ix) ==
    LET found == {i \in 1 .. Len(DepotSearchOrder) : IsValid(GetByType(ix, DepotSearchOrder[i]))}
    IN  IF found = {} THEN INVALID_TILE
        ELSE GetByType(ix, DepotSearchOrder[CHOOSE i \in found : \A j \in found : i <= j])

(***************************************************************************)
(* The cell and its callers.                                               *)
(***************************************************************************)
NoGrants == [t \in Tracks |-> 0]

NoCalls == [t \in Tracks |-> "none"]

Idle == [t |-> -1, st |-> "idle"]

Called(op, arg, arg2, ret) == [op |-> op, arg |-> arg, arg2 |-> arg2, ret |-> ret]

NoToggle == [st |-> "none", signalled |-> FALSE, tracks |-> 0, res |-> 0]

ResetHistory == grants' = NoGrants /\ cyc' = Idle /\ lastCall' = NoCalls /\ toggle' = NoToggle

IsSignalledDouble(w) == InnerMetroHasSignals(w) /\ InnerMetroHasDoubleTrack(w)

Callers == {1, 2}

\* no caller is inside TryMetroReserveTrack
RaceIdle ==
    [pc |-> [p \in Callers |-> "idle"], t |-> [p \in Callers |-> TRACK_X],
     res |-> [p \in Callers |-> TRACK_BIT_NONE], ret |-> [p \in Callers |-> FALSE],
     ov |-> FALSE, sawSame |-> FALSE, sawLost |-> FALSE]

NewTile == [tt |-> MP_CLEAR, type6 |-> FALSE, m1 |-> 0, m2 |-> 0, m6 |-> 0, m7 |-> 0]

\* a tile of the given type whose words are all zeroes (f = 0) or all ones (f = 1)
FilledCell(type, f) ==
    [tt |-> type, type6 |-> f = 1, m1 |-> 255 * f, m2 |-> 65535 * f, m3 |-> 255 * f, m4 |-> 255 * f,
     m5 |-> 255 * f, m6 |-> 255 * f, m7 |-> 255 * f, m8 |-> 65535 * f]

NewCell == FilledCell(MP_CLEAR, 0)

\* a new map cell: MP_CLEAR with an all-zero word
Init ==
    /\ m8 = 0
    /\ aborted = FALSE
    /\ last = [op |-> "Init", arg |-> 0, arg2 |-> 0, ret |-> FALSE]
    /\ grants = NoGrants
    /\ cyc = Idle
    /\ lastCall = NoCalls
    /\ toggle = NoToggle
    /\ race = RaceIdle
    /\ tile = NewTile
    /\ cell = NewCell
    /\ assoc = {}
    /\ index = NoRecords

Call_SetMetroTrackBits(b) ==
    /\ ~aborted
    /\ UNCHANGED otherVars
    /\ m8' = SetMetroTrackBits(m8, b)
    /\ last' = Called("SetMetroTrackBits", b, IF MetroHasSignals(m8) THEN 1 ELSE 0, FALSE)
    /\ ResetHistory
    /\ UNCHANGED aborted

Call_SetMetroRailType(r) ==
    /\ ~aborted
    /\ UNCHANGED otherVars
    /\ m8' = SetMetroRailType(m8, r)
    /\ last' = Called("SetMetroRailType", r, 0, FALSE)
    /\ ResetHistory
    /\ UNCHANGED aborted

Call_SetMetroHasSignals(signals) ==
    /\ ~aborted
    /\ UNCHANGED otherVars
    /\ LET r == SetMetroHasSignals(m8, signals)
       IN  /\ m8' = r.w
           /\ aborted' = r.failed
    /\ last' = Called("SetMetroHasSignals", IF signals THEN 1 ELSE 0, 0, FALSE)
    /\ toggle' = IF signals
                 THEN [st |-> "on", signalled |-> MetroHasSignals(m8),
                       tracks |-> GetMetroTrackBits(m8), res |-> GetMetroRailReservationTrackBits(m8)]
                 ELSE IF toggle.st = "on" THEN [toggle EXCEPT !.st = "off"]
                 ELSE NoToggle
    /\ grants' = NoGrants /\ cyc' = Idle /\ lastCall' = NoCalls

\* @pre HasMetroTrack(tile, t)
Call_TryMetroReserveTrack(t) ==
    /\ ~aborted
    /\ UNCHANGED otherVars
    /\ HasMetroTrack(m8, t)
    /\ LET r == TryMetroReserveTrack(m8, t)
       IN  /\ m8' = r.w
           /\ last' = Called("TryMetroReserveTrack", t, 0, r.ret)
           /\ grants' = IF r.ret THEN [grants EXCEPT ![t] = IF @ < 2 THEN @ + 1 ELSE @] ELSE grants
           /\ cyc' = IF r.ret
                     THEN IF cyc.t = t /\ cyc.st \in {"held", "dup"}
                          THEN [t |-> t, st |-> "dup"] ELSE [t |-> t, st |-> "held"]
                     ELSE IF cyc.t = t /\ cyc.st \in {"held", "dup"} THEN [t |-> t, st |-> "held"]
                     ELSE IF cyc.t = t /\ cyc.st = "freed" THEN [t |-> t, st |-> "stuck"]
                     ELSE Idle
    /\ lastCall' = IF IsSignalledDouble(m8) THEN [lastCall EXCEPT ![t] = "reserve"] ELSE NoCalls
    /\ toggle' = NoToggle
    /\ UNCHANGED aborted

\* @pre HasMetroTrack(tile, t)
Call_UnreserveMetroTrack(t) ==
    /\ ~aborted
    /\ UNCHANGED otherVars
    /\ HasMetroTrack(m8, t)
    /\ LET r == UnreserveMetroTrack(m8, t)
       IN  /\ m8' = r.w
           /\ aborted' = r.failed
    /\ last' = Called("UnreserveMetroTrack", t, 0, FALSE)
    /\ grants' = NoGrants
    /\ cyc' = IF cyc.t = t /\ cyc.st \in {"held", "dup"} THEN [t |-> t, st |-> "freed"] ELSE Idle
    /\ lastCall' = IF IsSignalledDouble(m8) THEN [lastCall EXCEPT ![t] = "release"] ELSE NoCalls
    /\ toggle' = NoToggle

\* @pre MetroHasSignals(t), IsPbsSignal(s); the track argument is not read
Call_SetMetroSignalType(s) ==
    /\ ~aborted
    /\ UNCHANGED otherVars
    /\ MetroHasSignals(m8)
    /\ m8' = SetMetroSignalType(m8, s)
    /\ last' = Called("SetMetroSignalType", s, 0, FALSE)
    /\ ResetHistory
    /\ UNCHANGED aborted

\* @pre MetroHasSignals(t); the track argument is not read
Call_SetMetroSignalVariant(v) ==
    /\ ~aborted
    /\ UNCHANGED otherVars
    /\ MetroHasSignals(m8)
    /\ m8' = SetMetroSignalVariant(m8, v)
    /\ last' = Called("SetMetroSignalVariant", v, 0, FALSE)
    /\ ResetHistory
    /\ UNCHANGED aborted

\* @pre MetroHasSignals(t); the track argument is not read
Call_CycleMetroSignalSide ==
    /\ ~aborted
    /\ UNCHANGED otherVars
    /\ MetroHasSignals(m8)
    /\ m8' = CycleMetroSignalSide(m8)
    /\ last' = Called("CycleMetroSignalSide", 0, 0, FALSE)
    /\ ResetHistory
    /\ UNCHANGED aborted

\* @pre HasMetroSignalOnTrackdir(tile, trackdir)
Call_SetMetroSignalStateByTrackdir(trackdir, state) ==
    /\ ~aborted
    /\ UNCHANGED otherVars
    /\ HasMetroSignalOnTrackdir(m8, trackdir)
    /\ m8' = SetMetroSignalStateByTrackdir(m8, trackdir, state)
    /\ last' = Called("SetMetroSignalStateByTrackdir", trackdir, state, FALSE)
    /\ ResetHistory
    /\ UNCHANGED aborted

Next ==
    \/ \E b \in TrackBitsValues : Call_SetMetroTrackBits(b)
    \/ \E r \in RailTypes : Call_SetMetroRailType(r)
    \/ \E signals \in BOOLEAN : Call_SetMetroHasSignals(signals)
    \/ \E t \in Tracks : Call_TryMetroReserveTrack(t)
    \/ \E t \in Tracks : Call_UnreserveMetroTrack(t)
    \/ \E s \in PbsSignalTypes : Call_SetMetroSignalType(s)
    \/ \E v \in SignalVariants : Call_SetMetroSignalVariant(v)
    \/ Call_CycleMetroSignalSide
    \/ \E td \in Trackdirs, state \in SignalStates : Call_SetMetroSignalStateByTrackdir(td, state)

Spec == Init /\ [][Next]_vars

\* the word is a 16-bit word, and the history variables have their shape
TypeOK ==
    /\ m8 \in 0 .. 65535
    /\ aborted \in BOOLEAN
    /\ last.arg \in 0 .. 63
    /\ \A t \in Tracks : grants[t] \in 0 .. 2

(***************************************************************************)
(* Two callers of TryMetroReserveTrack on one cell, with no lock: each     *)
(* call is the read with its tests, then the write.  A round is one call   *)
(* of each caller; when both have returned the next round may start.       *)
(***************************************************************************)
Other(p) == 3 - p

RaceTopologies ==
    {BitOr(TRACK_BIT_X, TRACK_BIT_Y), TRACK_BIT_HORZ, TRACK_BIT_VERT,
     BitOr(TRACK_BIT_HORZ, TRACK_BIT_VERT), 63}

\* the cells the callers meet: each topology unsignalled, and after
\* SetMetroHasSignals(true) where that left the cell usable
RaceCells ==
    {SetMetroTrackBits(0, b) : b \in RaceTopologies}
        \cup {SetMetroHasSignals(SetMetroTrackBits(0, b), TRUE).w : b \in {TRACK_BIT_HORZ, TRACK_BIT_X}}

InitRace ==
    /\ m8 \in RaceCells
    /\ aborted = FALSE
    /\ last = [op |-> "Init", arg |-> 0, arg2 |-> 0, ret |-> FALSE]
    /\ grants = NoGrants
    /\ cyc = Idle
    /\ lastCall = NoCalls
    /\ toggle = NoToggle
    /\ race = RaceIdle
    /\ tile = NewTile
    /\ cell = NewCell
    /\ assoc = {}
    /\ index = NoRecords

raceFrame == <<last, grants, cyc, lastCall, toggle, tile, cell, assoc, index>>

\* line 355: the call is entered; @pre HasMetroTrack(tile, t)
Race_Enter(p, t) ==
    /\ ~aborted
    /\ race.pc[p] = "idle"
    /\ HasMetroTrack(m8, t)
    /\ race' = [race EXCEPT !.pc[p] = "read", !.t[p] = t,
                            !.ov = @ \/ race.pc[Other(p)] \in {"read", "write"}]
    /\ UNCHANGED <<m8, aborted>>
    /\ UNCHANGED raceFrame

\* lines 356-360: the reservation is read and tested; return false, or go on
Race_ReadCheck(p) ==
    /\ ~aborted
    /\ race.pc[p] = "read"
    /\ LET r == TryMetroReserveTrack_ReadCheck(m8, race.t[p])
       IN  race' = IF r.go
                   THEN [race EXCEPT !.pc[p] = "write", !.res[p] = r.res]
                   ELSE [race EXCEPT !.pc[p] = "done", !.ret[p] = FALSE]
    /\ UNCHANGED <<m8, aborted>>
    /\ UNCHANGED raceFrame

\* lines 361-362: the local res is written to the word as it is now; return true
Race_Write(p) ==
    /\ ~aborted
    /\ race.pc[p] = "write"
    /\ m8' = SetMetroTrackReservation(m8, race.res[p])
    /\ aborted' = SetMetroTrackReservationFails(race.res[p])
    /\ race' = [race EXCEPT !.pc[p] = "done", !.ret[p] = TRUE, !.res[p] = TRACK_BIT_NONE]
    /\ UNCHANGED raceFrame

BothGranted == race.pc = [p \in Callers |-> "done"] /\ race.ret[1] /\ race.ret[2]

\* both calls of the round returned true for one track
GrantedSameTrack == BothGranted /\ race.t[1] = race.t[2]

\* both calls of the round returned true, one for UPPER and one for LOWER,
\* and the word records one of the two only
LostUpdate ==
    /\ BothGranted
    /\ {race.t[1], race.t[2]} = {TRACK_UPPER, TRACK_LOWER}
    /\ GetMetroRailReservationTrackBits(m8) \in {TRACK_BIT_UPPER, TRACK_BIT_LOWER}

\* both callers have their results; what the round showed is remembered
Race_Return ==
    /\ ~aborted
    /\ race.pc = [p \in Callers |-> "done"]
    /\ race' = [RaceIdle EXCEPT !.sawSame = race.sawSame \/ GrantedSameTrack,
                                !.sawLost = race.sawLost \/ LostUpdate]
    /\ UNCHANGED <<m8, aborted>>
    /\ UNCHANGED raceFrame

NextRace ==
    \/ \E p \in Callers, t \in Tracks : Race_Enter(p, t)
    \/ \E p \in Callers : Race_ReadCheck(p)
    \/ \E p \in Callers : Race_Write(p)
    \/ Race_Return

SpecRace == InitRace /\ [][NextRace]_vars

(***************************************************************************)
(* The metro owner of one tile, set and updated by its callers.            *)
(***************************************************************************)
OwnerTileTypes ==
    {MP_CLEAR, MP_RAILWAY, MP_ROAD, MP_HOUSE, MP_TREES, MP_WATER, MP_VOID,
     MP_INDUSTRY, MP_TUNNELBRIDGE, MP_OBJECT}

\* the tile types whose words keep a metro owner (all but MP_HOUSE)
OwnerStoringTileTypes == OwnerTileTypes \ {MP_HOUSE}

\* companies, OWNER_TOWN and OWNER_NONE
Owners == 0 .. OWNER_NONE

\* a tile of any type whose words are all zeroes or all ones before the call
OwnerTiles ==
    {[tt |-> tt, type6 |-> f = 1, m1 |-> 255 * f, m2 |-> 65535 * f, m6 |-> 255 * f, m7 |-> 255 * f] :
        tt \in OwnerTileTypes, f \in {0, 1}}

\* a station tile with rail or a road stop, which SetMetroTileOwner refuses (line 100)
IsStopTile(tl) == tl.tt = MP_STATION /\ tl.stop

\* station tiles with and without rail or road stop, owned by a company, the
\* town, nobody or the water, their word m6 all zeroes or all ones
StationTiles ==
    {[tt |-> MP_STATION, type6 |-> FALSE, m1 |-> o, m2 |-> 0, m6 |-> 255 * f, m7 |-> 0, stop |-> b] :
        o \in {0, 14, OWNER_TOWN, OWNER_NONE, OWNER_WATER}, f \in {0, 1}, b \in BOOLEAN}

InitOwner ==
    /\ tile \in OwnerTiles \cup StationTiles
    /\ m8 \in {0, TRACK_BIT_X}
    /\ aborted = FALSE
    /\ last = [op |-> "Init", arg |-> 0, arg2 |-> 0, ret |-> FALSE]
    /\ grants = NoGrants
    /\ cyc = Idle
    /\ lastCall = NoCalls
    /\ toggle = NoToggle
    /\ race = RaceIdle
    /\ cell = NewCell
    /\ assoc = {}
    /\ index = NoRecords

ownerFrame == <<m8, aborted, grants, cyc, lastCall, toggle, race, cell, assoc, index>>

\* @pre IsMetroTile(tile), and the assertion of line 100
Call_SetMetroTileOwner(o) ==
    /\ tile.tt # MP_VOID
    /\ ~IsStopTile(tile)
    /\ tile' = SetMetroTileOwner(tile, o)
    /\ last' = Called("SetMetroTileOwner", o, 0, FALSE)
    /\ UNCHANGED ownerFrame

\* @pre IsMetroTile(tile), and the assertion of line 100 when the setter is reached
Call_UpdateMetroTileOwner(o) ==
    /\ tile.tt # MP_VOID
    /\ GetMetroTrackBits(m8) = TRACK_BIT_NONE \/ ~IsStopTile(tile)
    /\ tile' = UpdateMetroTileOwner(m8, tile, o)
    /\ last' = Called("UpdateMetroTileOwner", o, 0, FALSE)
    /\ UNCHANGED ownerFrame

NextOwner ==
    \/ \E o \in Owners : Call_SetMetroTileOwner(o)
    \/ \E o \in Owners : Call_UpdateMetroTileOwner(o)

SpecOwner == InitOwner /\ [][NextOwner]_vars

(***************************************************************************)
(* A tile that is made a road, a road depot or a water tile over whatever  *)
(* it was before, by MakeRoadNormal, MakeRoadDepot, MakeWater, MakeShore,  *)
(* MakeShipDepot and MakeLockTile.                                         *)
(***************************************************************************)
cellFrame == <<m8, aborted, grants, cyc, lastCall, toggle, race, tile, assoc, index>>

\* the types of the tile before the first call
PriorTileTypes == {MP_CLEAR, MP_ROAD, MP_WATER}

\* the sets of tile types MayHaveAssociatedTile may accept
AssocSets == {{}, {MP_ROAD, MP_WATER}}

CellInitHistory ==
    /\ m8 = 0
    /\ aborted = FALSE
    /\ last = [op |-> "Init", arg |-> 0, arg2 |-> 0, ret |-> FALSE]
    /\ grants = NoGrants
    /\ cyc = Idle
    /\ lastCall = NoCalls
    /\ toggle = NoToggle
    /\ race = RaceIdle
    /\ tile = NewTile

InitMake ==
    /\ cell \in {FilledCell(type, f) : type \in PriorTileTypes, f \in {0, 1}}
    /\ assoc \in AssocSets
    /\ index = NoRecords
    /\ CellInitHistory

\* the type and bit 14 of m8 a tile has when a call begins
Before(t) == [type |-> t.tt, bit14 |-> HasBit(t.m8, 14)]

Call_MakeRoadNormal(a) ==
    /\ cell' = MakeRoadNormal(cell, a.bits, a.road_rt, a.tram_rt, a.town, a.road, a.tram)
    /\ last' = Called("MakeRoadNormal", a, Before(cell), FALSE)
    /\ UNCHANGED cellFrame

Call_MakeRoadDepot(a) ==
    /\ cell' = MakeRoadDepot(cell, a.owner, a.depot_id, a.dir, a.rt)
    /\ last' = Called("MakeRoadDepot", a, Before(cell), FALSE)
    /\ UNCHANGED cellFrame

Call_MakeShore ==
    /\ cell' = MakeShore(cell)
    /\ last' = Called("MakeShore", 0, Before(cell), FALSE)
    /\ UNCHANGED cellFrame

Call_MakeWater(a) ==
    /\ cell' = MakeWater(cell, a.o, a.wc, a.random_bits)
    /\ last' = Called("MakeWater", a, Before(cell), FALSE)
    /\ UNCHANGED cellFrame

Call_MakeShipDepot(a) ==
    /\ cell' = MakeShipDepot(cell, a.o, a.did, a.part, a.a, a.wc)
    /\ last' = Called("MakeShipDepot", a, Before(cell), FALSE)
    /\ UNCHANGED cellFrame

Call_MakeLockTile(a) ==
    /\ cell' = MakeLockTile(cell, a.o, a.part, a.dir, a.wc)
    /\ last' = Called("MakeLockTile", a, Before(cell), FALSE)
    /\ UNCHANGED cellFrame

\* the arguments: two road bit sets, a road type or none, an owner or two, both
\* depot parts and axes, the three lock parts, the first and the last direction
NextMake ==
    \/ \E a \in [bits : {5, 15}, road_rt : {ROADTYPE_ROAD, INVALID_ROADTYPE},
                  tram_rt : {ROADTYPE_TRAM, INVALID_ROADTYPE}, town : {1}, road : {OWNER_TOWN},
                  tram : {0, OWNER_NONE}] : Call_MakeRoadNormal(a)
    \/ \E a \in [owner : {0, 14}, depot_id : {1}, dir : {0, 3}, rt : {ROADTYPE_ROAD, ROADTYPE_TRAM}] :
           Call_MakeRoadDepot(a)
    \/ Call_MakeShore
    \/ \E a \in [o : {0, OWNER_WATER}, wc : WaterClasses, random_bits : {0, 255}] : Call_MakeWater(a)
    \/ \E a \in [o : {0, 14}, did : {1}, part : {0, 1}, a : {0, 1},
                  wc : {WATER_CLASS_SEA, WATER_CLASS_CANAL}] : Call_MakeShipDepot(a)
    \/ \E a \in [o : {0, 14}, part : {0, 1, 2}, dir : {0, 3},
                  wc : {WATER_CLASS_CANAL, WATER_CLASS_RIVER}] : Call_MakeLockTile(a)

SpecMake == InitMake /\ [][NextMake]_vars

(***************************************************************************)
(* The fields of a normal road tile, each changed by its own call.         *)
(***************************************************************************)
\* the road tiles MakeRoadNormal makes of a new tile: a town road, with or without a tram track
RoadCells ==
    {MakeRoadNormal(NewCell, 15, ROADTYPE_ROAD, tram_rt, 1, OWNER_TOWN, OWNER_NONE) :
        tram_rt \in {ROADTYPE_TRAM, INVALID_ROADTYPE}}

InitRoad ==
    /\ assoc = {}
    /\ index = NoRecords
    /\ cell \in RoadCells
    /\ CellInitHistory

\* the metro owners the callers give to a road tile
RoadMetroOwners == {0, 14, OWNER_NONE}

Road_ToggleSnowOrDesert ==
    /\ cell' = ToggleSnowOrDesert(cell)
    /\ last' = Called("ToggleSnowOrDesert", 0, 0, FALSE)
    /\ UNCHANGED cellFrame

Road_SetRoadside(s) ==
    /\ cell' = SetRoadside(cell, s)
    /\ last' = Called("SetRoadside", s, 0, FALSE)
    /\ UNCHANGED cellFrame

Road_StartRoadWorks ==
    /\ ~HasRoadWorks(cell)
    /\ cell' = StartRoadWorks(cell)
    /\ last' = Called("StartRoadWorks", 0, 0, FALSE)
    /\ UNCHANGED cellFrame

Road_TerminateRoadWorks ==
    /\ HasRoadWorks(cell)
    /\ cell' = TerminateRoadWorks(cell)
    /\ last' = Called("TerminateRoadWorks", 0, 0, FALSE)
    /\ UNCHANGED cellFrame

Road_IncreaseRoadWorksCounter ==
    /\ cell' = IncreaseRoadWorksCounter(cell).t
    /\ last' = Called("IncreaseRoadWorksCounter", 0, 0, IncreaseRoadWorksCounter(cell).ret)
    /\ UNCHANGED cellFrame

Road_SetRoadOwner(rtt, o) ==
    /\ cell' = SetRoadOwner(cell, rtt, o)
    /\ last' = Called("SetRoadOwner", rtt, o, FALSE)
    /\ UNCHANGED cellFrame

Road_SetMetroTileOwner(o) ==
    /\ cell' = SetMetroTileOwner(cell, o)
    /\ last' = Called("SetMetroTileOwner", o, 0, FALSE)
    /\ UNCHANGED cellFrame

NextRoad ==
    \/ Road_ToggleSnowOrDesert
    \/ \E s \in Roadsides : Road_SetRoadside(s)
    \/ Road_StartRoadWorks
    \/ Road_TerminateRoadWorks
    \/ Road_IncreaseRoadWorksCounter
    \/ \E o \in {0} : Road_SetRoadOwner(RTT_ROAD, o)
    \/ \E o \in {0} : Road_SetRoadOwner(RTT_TRAM, o)
    \/ \E o \in RoadMetroOwners : Road_SetMetroTileOwner(o)

SpecRoad == InitRoad /\ [][NextRoad]_vars

(***************************************************************************)
(* The owners of the road and of the tram track of a road tile.            *)
(***************************************************************************)
\* the owners a tram track can have: a company or nobody
TramOwners == (0 .. 14) \cup {OWNER_NONE}

\* normal road tiles and road depots, made over a tile of zeroes or of ones
OwnedRoadCells(t) ==
    {MakeRoadNormal(t, 15, ROADTYPE_ROAD, ROADTYPE_TRAM, 1, OWNER_TOWN, o) : o \in {0, OWNER_NONE}}
        \cup {MakeRoadDepot(t, 14, 1, 0, ROADTYPE_TRAM)}

InitRoadOwner ==
    /\ assoc = {}
    /\ index = NoRecords
    /\ cell \in UNION {OwnedRoadCells(FilledCell(MP_CLEAR, f)) : f \in {0, 1}}
    /\ CellInitHistory

\* @pre MayHaveRoad(t); the tile before the call is kept in last.ret
Call_SetRoadOwner(rtt, o) ==
    /\ MayHaveRoad(cell)
    /\ cell' = SetRoadOwner(cell, rtt, o)
    /\ last' = Called("SetRoadOwner", rtt, o, cell)
    /\ UNCHANGED cellFrame

\* @pre MayHaveRoad(t), rt == INVALID_ROADTYPE || RoadTypeIsTram(rt)
Tile_SetRoadTypeTram(rt) ==
    /\ MayHaveRoad(cell)
    /\ rt = INVALID_ROADTYPE \/ RoadTypeIsTram(rt)
    /\ cell' = SetRoadTypeTram(cell, rt)
    /\ last' = Called("SetRoadTypeTram", rt, 0, cell)
    /\ UNCHANGED cellFrame

\* SetMetroRailType on the word m8 of the road tile; @pre IsMetroTile(t)
Tile_SetMetroRailType(r) ==
    /\ cell.tt # MP_VOID
    /\ cell' = [cell EXCEPT !.m8 = SetMetroRailType(@, r)]
    /\ last' = Called("SetMetroRailType", r, 0, cell)
    /\ UNCHANGED cellFrame

NextRoadOwner ==
    \/ \E o \in {0, OWNER_TOWN, OWNER_NONE} : Call_SetRoadOwner(RTT_ROAD, o)
    \/ \E o \in TramOwners : Call_SetRoadOwner(RTT_TRAM, o)
    \/ \E rt \in {ROADTYPE_TRAM, INVALID_ROADTYPE} : Tile_SetRoadTypeTram(rt)
    \/ \E r \in RailTypes : Tile_SetMetroRailType(r)

SpecRoadOwner == InitRoadOwner /\ [][NextRoadOwner]_vars

(***************************************************************************)
(* The records at one tile index, made one by one, and the depot looked    *)
(* for among them.                                                         *)
(***************************************************************************)
InitDepot ==
    /\ assoc = {}
    /\ index = NoRecords
    /\ cell = NewCell
    /\ CellInitHistory

depotFrame == <<m8, aborted, grants, cyc, lastCall, toggle, race, tile, cell, assoc>>

\* the record of a type at the index, or a new one for a Make call to fill
RecordToMake(type) == IF IsValid(GetByType(index, type)) THEN GetByType(index, type) ELSE NewCell

\* a rail or a station record appears at the index, a depot (hangar) or not
Index_PutRecord(type, depot) ==
    /\ index' = [index EXCEPT ![type] = [tt |-> type, depot |-> depot]]
    /\ last' = Called("PutRecord", type, 0, depot)
    /\ UNCHANGED depotFrame

Index_MakeRoadNormal(tram_rt) ==
    /\ index' = [index EXCEPT ![MP_ROAD] =
                    MakeRoadNormal(RecordToMake(MP_ROAD), 15, ROADTYPE_ROAD, tram_rt, 1, OWNER_TOWN, OWNER_NONE)]
    /\ last' = Called("MakeRoadNormal", tram_rt, 0, FALSE)
    /\ UNCHANGED depotFrame

Index_MakeRoadDepot(owner) ==
    /\ index' = [index EXCEPT ![MP_ROAD] = MakeRoadDepot(RecordToMake(MP_ROAD), owner, 1, 0, ROADTYPE_ROAD)]
    /\ last' = Called("MakeRoadDepot", owner, 0, FALSE)
    /\ UNCHANGED depotFrame

Index_MakeWater(wc) ==
    /\ index' = [index EXCEPT ![MP_WATER] = MakeWater(RecordToMake(MP_WATER), OWNER_WATER, wc, 0)]
    /\ last' = Called("MakeWater", wc, 0, FALSE)
    /\ UNCHANGED depotFrame

Index_MakeShipDepot(part) ==
    /\ index' = [index EXCEPT ![MP_WATER] =
                    MakeShipDepot(RecordToMake(MP_WATER), 0, 1, part, 0, WATER_CLASS_SEA)]
    /\ last' = Called("MakeShipDepot", part, 0, FALSE)
    /\ UNCHANGED depotFrame

\* the call returns a tile: last.ret is the record returned
Index_GetDepotTile ==
    /\ IsDepotTile(index)
    /\ last' = Called("GetDepotTile", 0, 0, GetDepotTile(index))
    /\ UNCHANGED <<index, depotFrame>>

NextDepot ==
    \/ \E type \in {MP_RAILWAY, MP_STATION}, depot \in BOOLEAN : Index_PutRecord(type, depot)
    \/ \E tram_rt \in {ROADTYPE_TRAM, INVALID_ROADTYPE} : Index_MakeRoadNormal(tram_rt)
    \/ \E owner \in {0, 14} : Index_MakeRoadDepot(owner)
    \/ \E wc \in {WATER_CLASS_SEA, WATER_CLASS_CANAL} : Index_MakeWater(wc)
    \/ \E part \in {0, 1} : Index_MakeShipDepot(part)
    \/ Index_GetDepotTile

SpecDepot == InitDepot /\ [][NextDepot]_vars

(***************************************************************************)
(* Properties of the reservation protocol.                                 *)
(***************************************************************************)
\* the reservation and the topology read through the accessors
Reservation == GetMetroRailReservationTrackBits(m8)

Topology == GetMetroTrackBits(m8)

SingleTrackBits ==
    {TRACK_BIT_X, TRACK_BIT_Y, TRACK_BIT_UPPER, TRACK_BIT_LOWER, TRACK_BIT_LEFT, TRACK_BIT_RIGHT}

\* C1: in every reachable state the reserved tracks are a subset of the
\* tracks present on the cell.
C1_ReservationSubset == BitAnd(Reservation, Topology) = Reservation

\* C2: in a run of consecutive TryMetroReserveTrack calls (no release and no
\* other call in between) at most one call naming a given track returns true.
C2_Exclusivity == \A t \in Tracks : grants[t] <= 1

\* C2 witness: on a signalled double-track cell both sides were granted once
\* and a further TryMetroReserveTrack on a granted side has just been refused.
C2_Witness ==
    /\ IsSignalledDouble(m8)
    /\ last.op = "TryMetroReserveTrack" /\ ~last.ret
    /\ grants[last.arg] = 1
    /\ \E t \in Tracks : t # last.arg /\ grants[t] = 1

\* C3: a TryMetroReserveTrack(T) called while T is already reserved, or while
\* the reservation joined with T overlaps, returns false and leaves the whole
\* word as it was.
C3_RejectLeavesWord ==
    [][(/\ last'.op = "TryMetroReserveTrack"
        /\ \/ HasBit(GetMetroRailReservationTrackBits(m8), last'.arg)
           \/ TracksOverlap(BitOr(GetMetroRailReservationTrackBits(m8), TrackToTrackBits(last'.arg))))
       => (~last'.ret /\ m8' = m8)]_vars

\* C3 witness: with TRACK_X reserved on a cell that also has TRACK_Y, the
\* attempt on TRACK_Y has been refused and TRACK_X is still the reservation.
C3_Witness ==
    /\ last.op = "TryMetroReserveTrack" /\ last.arg = TRACK_Y /\ ~last.ret
    /\ HasMetroTrack(m8, TRACK_Y)
    /\ Reservation = TRACK_BIT_X

\* C4: whenever TryMetroReserveTrack(T) returns true, the reservation read
\* back is the reservation read before the call plus T.
C4_GrantAddsExactlyT ==
    [][(last'.op = "TryMetroReserveTrack" /\ last'.ret)
       => GetMetroRailReservationTrackBits(m8') =
             BitOr(GetMetroRailReservationTrackBits(m8), TrackToTrackBits(last'.arg))]_vars

\* C5: no call other than TryMetroReserveTrack adds a track to the
\* reservation read through GetMetroRailReservationTrackBits.
C5_OnlyTryReserves ==
    [][last'.op # "TryMetroReserveTrack"
       => BitAnd(GetMetroRailReservationTrackBits(m8'), GetMetroRailReservationTrackBits(m8))
             = GetMetroRailReservationTrackBits(m8')]_vars

\* C6: after a successful TryMetroReserveTrack(T) a second one is refused
\* (never "dup"), and after UnreserveMetroTrack(T) the next
\* TryMetroReserveTrack(T) succeeds again (never "stuck").
C6_ReserveReleaseCycle == cyc.st \notin {"dup", "stuck"}

\* C7: UnreserveMetroTrack(T) removes T from the reservation and changes
\* nothing else of it.
C7_ReleaseClearsExactlyT ==
    [][last'.op = "UnreserveMetroTrack"
       => GetMetroRailReservationTrackBits(m8') =
             BitClear(GetMetroRailReservationTrackBits(m8), TrackToTrackBits(last'.arg))]_vars

\* C8: UnreserveMetroTrack(T) on a track that is present but not reserved
\* trips no assertion and leaves the word unchanged.
C8_ReleaseUnreservedIsNoOp ==
    [][(last'.op = "UnreserveMetroTrack" /\ ~HasBit(GetMetroRailReservationTrackBits(m8), last'.arg))
       => (~aborted' /\ m8' = m8)]_vars

\* C9: on a signalled double-track cell, a side named by a reservation call is
\* reserved exactly when the last call naming it was a reserve, not a release.
C9_IndependentSides ==
    IsSignalledDouble(m8) =>
        \A t \in Tracks : lastCall[t] # "none" => (HasBit(Reservation, t) <=> lastCall[t] = "reserve")

IsRepresentable(w) ==
    /\ GetMetroTrackBits(w) \in RecognisedTrackBits
    /\ BitAnd(GetMetroRailReservationTrackBits(w), GetMetroTrackBits(w)) = GetMetroRailReservationTrackBits(w)
    /\ ~TracksOverlap(GetMetroRailReservationTrackBits(w))

\* C11: on a cell whose topology is one of the eight recognised values and
\* whose reservation is a non-overlapping subset of it, SetMetroHasSignals(true)
\* on the unsignalled cell and SetMetroHasSignals(false) on the signalled cell
\* leave the track bits and the reservation as they were.
C11_ToggleKeepsRepresentable ==
    [][(/\ last'.op = "SetMetroHasSignals"
        /\ IsRepresentable(m8)
        /\ \/ last'.arg = 1 /\ ~MetroHasSignals(m8)
           \/ last'.arg = 0 /\ MetroHasSignals(m8))
       => (/\ GetMetroTrackBits(m8') = GetMetroTrackBits(m8)
           /\ GetMetroRailReservationTrackBits(m8') = GetMetroRailReservationTrackBits(m8))]_vars

\* C12: SetMetroHasSignals(true) on an unsignalled cell whose topology is not
\* one of the eight recognised values trips no assertion and leaves the cell
\* unsignalled, with its track bits and its reservation as they were.
C12_UnrecognisedStaysUnsignalled ==
    [][(/\ last'.op = "SetMetroHasSignals" /\ last'.arg = 1
        /\ ~MetroHasSignals(m8)
        /\ GetMetroTrackBits(m8) \notin RecognisedTrackBits)
       => (/\ ~aborted'
           /\ ~MetroHasSignals(m8')
           /\ GetMetroTrackBits(m8') = GetMetroTrackBits(m8)
           /\ GetMetroRailReservationTrackBits(m8') = GetMetroRailReservationTrackBits(m8))]_vars

\* C13: right after SetMetroTrackBits(T), on a cell that was unsignalled (any
\* 6-bit T) or signalled (T one of the eight recognised values),
\* GetMetroTrackBits returns T.
C13_TrackBitsRoundTrip ==
    (/\ last.op = "SetMetroTrackBits"
     /\ (last.arg2 = 0 \/ last.arg \in RecognisedTrackBits))
    => Topology = last.arg

\* C13 witness: a signalled cell has just been given TRACK_BIT_X (the words
\* that led here include double-track ones) and reads it back.
C13_Witness ==
    /\ last.op = "SetMetroTrackBits" /\ last.arg = TRACK_BIT_X /\ last.arg2 = 1
    /\ MetroHasSignals(m8)
    /\ Topology = TRACK_BIT_X

\* C14: right after SetMetroTrackBits(B) on a signalled cell: when B is not
\* one of the eight recognised values the cell is unsignalled and its track
\* bits are B; when B is recognised the cell is still signalled.
C14_ImplicitDowngrade ==
    (last.op = "SetMetroTrackBits" /\ last.arg2 = 1)
    => IF last.arg \in RecognisedTrackBits
       THEN MetroHasSignals(m8)
       ELSE ~MetroHasSignals(m8) /\ Topology = last.arg

\* C14 witness: a signalled cell has just been given the crossing X|Y and is
\* now unsignalled with those two tracks.
C14_Witness ==
    /\ last.op = "SetMetroTrackBits" /\ last.arg2 = 1
    /\ last.arg = BitOr(TRACK_BIT_X, TRACK_BIT_Y)
    /\ ~MetroHasSignals(m8)
    /\ Topology = BitOr(TRACK_BIT_X, TRACK_BIT_Y)

\* C15: after SetMetroTrackBits(B) no track that was present before and is
\* not in B is still reserved; after SetMetroTrackBits(TRACK_BIT_NONE) the
\* cell has no track and no reservation.
C15_NoReservationOutlivesRemoval ==
    [][last'.op = "SetMetroTrackBits"
       => (/\ BitAnd(GetMetroRailReservationTrackBits(m8'),
                     BitClear(GetMetroTrackBits(m8), last'.arg)) = TRACK_BIT_NONE
           /\ last'.arg = TRACK_BIT_NONE
                 => (/\ GetMetroTrackBits(m8') = TRACK_BIT_NONE
                     /\ GetMetroRailReservationTrackBits(m8') = TRACK_BIT_NONE))]_vars

\* C16: on a signalled single-track cell the reservation is the cell's one
\* track when bit 2 is set and empty when bit 2 is clear, whatever the other
\* bits hold.
C16_SingleTrackBit2Alone ==
    (InnerMetroHasSignals(m8) /\ ~InnerMetroHasDoubleTrack(m8))
    => Reservation = IF HasBit(m8, 2) THEN TrackToTrackBits(GetMetroTrack(m8)) ELSE TRACK_BIT_NONE

\* C17: on an unsignalled cell whose 3-bit field holds 7 because the two
\* tracks of one bundle were granted (UPPER and LOWER, or LEFT and RIGHT), the
\* reservation read back is exactly that bundle.
C17_SentinelBundle ==
    (~MetroHasSignals(m8) /\ GB(m8, 12, 3) = TRACK_RESERVATION_BOTH)
    => /\ (grants[TRACK_UPPER] = 1 /\ grants[TRACK_LOWER] = 1) => Reservation = TRACK_BIT_HORZ
       /\ (grants[TRACK_LEFT] = 1 /\ grants[TRACK_RIGHT] = 1) => Reservation = TRACK_BIT_VERT

\* C18: TryMetroReserveTrack and UnreserveMetroTrack leave the track bits,
\* the has-signals flag and the rail type as they were and, on a signalled
\* cell, also the signal side (bit 0), state (bit 1), variant (bit 12) and
\* type (bit 13).
C18_ReservationFrame ==
    [][last'.op \in {"TryMetroReserveTrack", "UnreserveMetroTrack"}
       => (/\ GetMetroTrackBits(m8') = GetMetroTrackBits(m8)
           /\ MetroHasSignals(m8') = MetroHasSignals(m8)
           /\ GetMetroRailType(m8') = GetMetroRailType(m8)
           /\ MetroHasSignals(m8)
                 => (/\ HasBit(m8', 0) = HasBit(m8, 0)
                     /\ HasBit(m8', 1) = HasBit(m8, 1)
                     /\ GetMetroSignalVariant(m8') = GetMetroSignalVariant(m8)
                     /\ GetMetroSignalType(m8') = GetMetroSignalType(m8)))]_vars

\* C18 witness: a reservation has just been granted on a signalled cell whose
\* signal side, variant and type bits are all set.
C18_Witness ==
    /\ last.op = "TryMetroReserveTrack" /\ last.ret
    /\ MetroHasSignals(m8)
    /\ HasBit(m8, 0)
    /\ GetMetroSignalVariant(m8) = SIG_SEMAPHORE
    /\ GetMetroSignalType(m8) = SIGTYPE_PBS

(***************************************************************************)
(* Properties of the unlocked read-check-write, and of the metro owner.    *)
(***************************************************************************)
\* C19: when the two calls of a round ran one after the other, they did not
\* both return true for the same track or for two crossing tracks; when their
\* steps interleave both can return true for the same track, and both can
\* return true for UPPER and LOWER with the word recording one only (the
\* witness).
C19_SerialCallsExclusive ==
    (BothGranted /\ ~race.ov)
    => /\ race.t[1] # race.t[2]
       /\ ~TracksOverlap(BitOr(TrackToTrackBits(race.t[1]), TrackToTrackBits(race.t[2])))

\* C19 witness: interleaved rounds have shown both outcomes, two grants of
\* one track and a grant of UPPER and of LOWER of which the word kept one.
C19_Witness == race.sawSame /\ race.sawLost

\* C20: right after SetMetroTileOwner(tile, o) on a tile type that keeps a
\* metro owner, GetMetroTileOwner returns o when o is a company or
\* OWNER_NONE, and OWNER_NONE when o is OWNER_TOWN.
C20_OwnerRoundTrip ==
    (last.op = "SetMetroTileOwner" /\ tile.tt \in OwnerStoringTileTypes)
    => GetMetroTileOwner(tile) = IF last.arg = OWNER_TOWN THEN OWNER_NONE ELSE last.arg

(***************************************************************************)
(* Properties of the reservation setter and of the signal accessors.       *)
(***************************************************************************)
\* the sets SetMetroTrackReservation may be given on the cell: the empty set,
\* one track, or the two tracks of a bundle, all within the topology
ReservableSets(w) ==
    {b \in {TRACK_BIT_NONE} \cup SingleTrackBits \cup {TRACK_BIT_HORZ, TRACK_BIT_VERT} :
        BitAnd(b, GetMetroTrackBits(w)) = b}

\* C27: in every reachable cell state and for every non-overlapping set B
\* within the topology, GetMetroRailReservationTrackBits returns B right after
\* SetMetroTrackReservation(cell, B).
C27_ReservationRoundTrip ==
    \A b \in ReservableSets(m8) :
        GetMetroRailReservationTrackBits(SetMetroTrackReservation(m8, b)) = b

\* C28: a signalled cell has exactly one of the six single tracks, HORZ or
\* VERT as its track bits, and its single-track index is never 6 or 7.
C28_SignalledTopologyWellFormed ==
    MetroHasSignals(m8)
    => /\ Topology \in RecognisedTrackBits
       /\ ~InnerMetroHasDoubleTrack(m8) => GetMetroTrack(m8) \in Tracks

\* C28 witness: SetMetroHasSignals(true) has just compressed TRACK_BIT_RIGHT,
\* the track with the highest index, and the cell is signalled.
C28_Witness ==
    /\ last.op = "SetMetroHasSignals" /\ last.arg = 1
    /\ MetroHasSignals(m8)
    /\ Topology = TRACK_BIT_RIGHT

\* C29: a signalled cell has its signal on exactly one track, that track is
\* present, and the signal faces exactly one of the two trackdirs of that
\* track and no other trackdir; an unsignalled cell has no signal on any track
\* or trackdir.
C29_OneSignalOnPresentTrack ==
    IF MetroHasSignals(m8)
    THEN \E t \in Tracks :
            /\ HasMetroSignalOnTrack(m8, t)
            /\ \A u \in Tracks : HasMetroSignalOnTrack(m8, u) => u = t
            /\ HasMetroTrack(m8, t)
            /\ HasMetroSignalOnTrackdir(m8, TrackToTrackdir(t))
                  # HasMetroSignalOnTrackdir(m8, ReverseTrackdir(TrackToTrackdir(t)))
            /\ \A td \in Trackdirs :
                  HasMetroSignalOnTrackdir(m8, td)
                     => td \in {TrackToTrackdir(t), ReverseTrackdir(TrackToTrackdir(t))}
    ELSE /\ \A t \in Tracks : ~HasMetroSignalOnTrack(m8, t)
         /\ \A td \in Trackdirs : ~HasMetroSignalOnTrackdir(m8, td)

\* C29 witness: a signalled double-track cell whose signal sits on the second
\* track of the bundle (bit 4), TRACK_LOWER.
C29_Witness ==
    /\ IsSignalledDouble(m8)
    /\ HasMetroSignalOnTrack(m8, TRACK_LOWER)

\* C30: CycleMetroSignalSide moves the signal to the reverse trackdir of the
\* same track, changes no bit other than bit 0, and a second call gives the
\* word back.
C30_CycleReversesSide ==
    [][last'.op = "CycleMetroSignalSide"
       => (/\ \A td \in Trackdirs :
                 HasMetroSignalOnTrackdir(m8, td)
                    => (/\ ~HasMetroSignalOnTrackdir(m8', td)
                        /\ HasMetroSignalOnTrackdir(m8', ReverseTrackdir(td)))
           /\ m8' \div 2 = m8 \div 2
           /\ m8' # m8
           /\ CycleMetroSignalSide(m8') = m8)]_vars

\* C30 witness: the signal of a cell with TRACK_UPPER has just been cycled
\* and now faces the reverse trackdir.
C30_Witness ==
    /\ last.op = "CycleMetroSignalSide"
    /\ HasMetroSignalOnTrackdir(m8, ReverseTrackdir(TrackToTrackdir(TRACK_UPPER)))

(***************************************************************************)
(* Properties of the road fields and of the Make functions.                *)
(***************************************************************************)
RoadFieldOps ==
    {"ToggleSnowOrDesert", "SetRoadside", "StartRoadWorks", "TerminateRoadWorks",
     "IncreaseRoadWorksCounter", "SetRoadOwner"}

\* the road fields of a tile, as their getters read them
RoadFields(t) ==
    <<IsOnSnowOrDesert(t), GetRoadside(t), GetRoadWorksCounter(t),
      GetRoadOwner(t, RTT_ROAD), GetRoadOwner(t, RTT_TRAM)>>

\* C21: on a road tile, a call of ToggleSnowOrDesert, SetRoadside, StartRoadWorks,
\* TerminateRoadWorks, IncreaseRoadWorksCounter or SetRoadOwner leaves
\* GetMetroTileOwner as it was, and a call of SetMetroTileOwner leaves
\* IsOnSnowOrDesert, GetRoadside, the road-works counter and GetRoadOwner as they were.
C21_MetroOwnerDisjointFromRoadFields ==
    [][/\ last'.op \in RoadFieldOps => GetMetroTileOwner(cell') = GetMetroTileOwner(cell)
       /\ last'.op = "SetMetroTileOwner" => RoadFields(cell') = RoadFields(cell)]_vars

MakeOps == {"MakeRoadNormal", "MakeRoadDepot", "MakeShore", "MakeWater", "MakeShipDepot", "MakeLockTile"}

\* the call op with the arguments a, made on the tile t
ApplyMake(op, a, t) ==
    CASE op = "MakeRoadNormal" -> MakeRoadNormal(t, a.bits, a.road_rt, a.tram_rt, a.town, a.road, a.tram)
      [] op = "MakeRoadDepot" -> MakeRoadDepot(t, a.owner, a.depot_id, a.dir, a.rt)
      [] op = "MakeShore" -> MakeShore(t)
      [] op = "MakeWater" -> MakeWater(t, a.o, a.wc, a.random_bits)
      [] op = "MakeShipDepot" -> MakeShipDepot(t, a.o, a.did, a.part, a.a, a.wc)
      [] op = "MakeLockTile" -> MakeLockTile(t, a.o, a.part, a.dir, a.wc)

\* the payload words of a tile, bit 14 of m8 left out
PayloadBut14(t) == <<t.m1, t.m2, t.m3, t.m4, t.m5, t.m6, t.m7, ClrBit(t.m8, 14)>>

\* C22: after MakeRoadNormal, MakeRoadDepot, MakeWater, MakeShore, MakeShipDepot or
\* MakeLockTile the words m1 .. m8, bit 14 of m8 apart, are the ones the same call
\* leaves on a tile of zeroes: nothing of the tile's former content is in them.
C22_PayloadFromArgumentsAlone ==
    last.op \in MakeOps => PayloadBut14(cell) = PayloadBut14(ApplyMake(last.op, last.arg, NewCell))

\* C23: after each of the six Make functions bit 14 of m8 is 0 when
\* MayHaveAssociatedTile of the former tile type is false, and is the former bit 14 otherwise.
C23_AssociatedFlagCarriedOver ==
    last.op \in MakeOps =>
        HasBit(cell.m8, 14) = (MayHaveAssociatedTile(last.arg2.type) /\ last.arg2.bit14)

\* C24: after MakeWater, MakeShore, MakeShipDepot, MakeLockTile or MakeRoadDepot the
\* metro state read from m8 is empty: no signals, no track, no reservation.
C24_MadeTileHasNoMetro ==
    last.op \in MakeOps \ {"MakeRoadNormal"} =>
        /\ ~MetroHasSignals(cell.m8)
        /\ GetMetroTrackBits(cell.m8) = TRACK_BIT_NONE
        /\ GetMetroRailReservationTrackBits(cell.m8) = TRACK_BIT_NONE

\* C26: after SetRoadOwner(t, RTT_TRAM, o), for o a company or OWNER_NONE,
\* GetRoadOwner(t, RTT_TRAM) is o, OWNER_NONE being kept as the 4-bit code of
\* OWNER_TOWN; the getter never returns OWNER_TOWN for the tram; and the call
\* changes nothing of the tile but bits 4 .. 7 of m3.
C26_TramOwnerRoundTrip ==
    /\ GetRoadOwner(cell, RTT_TRAM) # OWNER_TOWN
    /\ (last.op = "SetRoadOwner" /\ last.arg = RTT_TRAM) =>
            /\ GetRoadOwner(cell, RTT_TRAM) = last.arg2
            /\ last.arg2 = OWNER_NONE => GB(cell.m3, 4, 4) = OWNER_TOWN
            /\ [cell EXCEPT !.m3 = SB(@, 4, 4, 0)] = [last.ret EXCEPT !.m3 = SB(@, 4, 4, 0)]

\* OWNER_NONE was given to a tram track owned by a company, over a tile of ones
C26_Witness ==
    /\ last.op = "SetRoadOwner"
    /\ last.arg = RTT_TRAM
    /\ last.arg2 = OWNER_NONE
    /\ GB(last.ret.m3, 4, 4) = 14
    /\ last.ret.m6 # 0
    /\ GB(cell.m3, 4, 4) = OWNER_TOWN

(***************************************************************************)
(* Properties of the signal queries.                                       *)
(***************************************************************************)
\* C31: after SetMetroSignalStateByTrackdir(cell, td, s), called for the trackdir
\* td along which the signal stands, GetMetroSignalStateByTrackdir(cell, td) is s,
\* and for the reverse trackdir of the same track the getter returns RED; the
\* getter's assertion holds for both.
C31_SignalStateRoundTrip ==
    last.op = "SetMetroSignalStateByTrackdir" =>
        /\ HasMetroSignalOnTrackdir(m8, last.arg)
        /\ ~GetMetroSignalStateByTrackdirFails(m8, last.arg)
        /\ GetMetroSignalStateByTrackdir(m8, last.arg) = last.arg2
        /\ ~GetMetroSignalStateByTrackdirFails(m8, ReverseTrackdir(last.arg))
        /\ GetMetroSignalStateByTrackdir(m8, ReverseTrackdir(last.arg)) = SIGNAL_STATE_RED

\* C31 witness: GREEN has just been set along the reverse trackdir of
\* TRACK_LOWER on a signalled double-track cell.
C31_Witness ==
    /\ last.op = "SetMetroSignalStateByTrackdir"
    /\ last.arg = ReverseTrackdir(TrackToTrackdir(TRACK_LOWER))
    /\ last.arg2 = SIGNAL_STATE_GREEN
    /\ IsSignalledDouble(m8)

\* C32: on every metro tile and for every trackdir HasOnewayMetroSignalBlockingTrackdir
\* and HasPbsMetroSignalOnTrackdir return without tripping an assertion, and on
\* a tile without signals both return false.
C32_SignalQueriesTotal ==
    \A td \in Trackdirs :
        /\ ~HasOnewayMetroSignalBlockingTrackdir(m8, td).failed
        /\ ~MetroHasSignals(m8) =>
                /\ ~HasOnewayMetroSignalBlockingTrackdir(m8, td).ret
                /\ ~HasPbsMetroSignalOnTrackdir(m8, td)

(***************************************************************************)
(* Properties of the rail type field.                                      *)
(***************************************************************************)
\* what the track, signal and reservation getters read from a word
EngineView(w) ==
    <<GetMetroTrackBits(w), GetMetroRailReservationTrackBits(w), MetroHasSignals(w),
      IF MetroHasSignals(w)
      THEN <<GetMetroSignalType(w), GetMetroSignalVariant(w), HasBit(w, 0), HasBit(w, 1)>>
      ELSE <<>>>>

\* C33: every call other than SetMetroRailType leaves GetMetroRailType as it was;
\* SetMetroRailType(r) leaves the track bits, the reservation, the signal flag and
\* the signal attributes as they were and GetMetroRailType then reads r; given
\* any 6-bit r on the same word, SetMetroRailType changes no bit outside bits
\* 6 .. 11 and GetMetroRailType reads r, and what the other getters read is the
\* same with the field all zeroes and all ones.
C33_RailTypeIndependent ==
    [][/\ last'.op # "SetMetroRailType" => GetMetroRailType(m8') = GetMetroRailType(m8)
       /\ last'.op = "SetMetroRailType" =>
               /\ GetMetroRailType(m8') = last'.arg
               /\ EngineView(m8') = EngineView(m8)
               /\ \A r \in 0 .. 63 :
                       /\ GetMetroRailType(SetMetroRailType(m8, r)) = r
                       /\ SetMetroRailType(SetMetroRailType(m8, r), 0) = SetMetroRailType(m8, 0)
               /\ \A r \in {0, 63} : EngineView(SetMetroRailType(m8, r)) = EngineView(m8)]_vars

\* C33 witness: the rail type has just been set to 1 on a signalled cell with
\* a semaphore signal and a reserved track.
C33_Witness ==
    /\ last.op = "SetMetroRailType"
    /\ last.arg = 1
    /\ GetMetroRailType(m8) = 1
    /\ MetroHasSignals(m8)
    /\ GetMetroSignalVariant(m8) = SIG_SEMAPHORE
    /\ GetMetroRailReservationTrackBits(m8) # TRACK_BIT_NONE

\* C34: on a tile that may have road, SetRoadTypeTram leaves GetMetroRailType
\* as it was and SetMetroRailType leaves GetRoadTypeTram as it was.
C34_TramTypeAndRailTypeApart ==
    /\ last.op = "SetRoadTypeTram" => GetMetroRailType(cell.m8) = GetMetroRailType(last.ret.m8)
    /\ last.op = "SetMetroRailType" => GetRoadTypeTram(cell) = GetRoadTypeTram(last.ret)

\* the attributes of the signal of a signalled cell: its state along the
\* trackdir it stands on, its side, its variant and its type
SignalAttributes(w) ==
    <<IF \E td \in Trackdirs : HasMetroSignalOnTrackdir(w, td)
      THEN GetMetroSignalStateByTrackdir(w, CHOOSE td \in Trackdirs : HasMetroSignalOnTrackdir(w, td))
      ELSE SIGNAL_STATE_RED,
      HasBit(w, 0), GetMetroSignalVariant(w), GetMetroSignalType(w)>>

\* C35: the signal attributes of a cell that has just been given signals by
\* SetMetroHasSignals(cell, true), having been unsignalled with a recognised
\* topology, are the same whatever its topology and reservation were: they are
\* the ones a cell with the single track TRACK_UPPER and no reservation gets.
C35_FreshSignalAttributes ==
    (/\ toggle.st = "on"
     /\ ~toggle.signalled
     /\ toggle.tracks \in RecognisedTrackBits
     /\ ~aborted)
    => SignalAttributes(m8)
         = SignalAttributes(SetMetroHasSignals(SetMetroTrackBits(0, TRACK_BIT_UPPER), TRUE).w)

(***************************************************************************)
(* Properties of the metro owner.                                          *)
(***************************************************************************)
\* C36: on every metro tile GetMetroTileOwner returns a company (0 .. 14) or
\* OWNER_NONE, never OWNER_TOWN or more than OWNER_NONE; on an MP_HOUSE tile it
\* returns OWNER_NONE and SetMetroTileOwner changes nothing; and
\* UpdateMetroTileOwner changes nothing when GetMetroTrackBits is empty.
C36_MetroOwnerIsCompanyOrNone ==
    [][/\ \A tl \in {tile, tile'} :
             tl.tt # MP_VOID =>
                /\ GetMetroTileOwner(tl) \in (0 .. 14) \cup {OWNER_NONE}
                /\ tl.tt = MP_HOUSE => GetMetroTileOwner(tl) = OWNER_NONE
       /\ (last'.op = "SetMetroTileOwner" /\ tile.tt = MP_HOUSE) => tile' = tile
       /\ (last'.op = "UpdateMetroTileOwner" /\ GetMetroTrackBits(m8) = TRACK_BIT_NONE)
             => tile' = tile]_vars

\* C36 witness: UpdateMetroTileOwner has been called on a cell without track,
\* whose tile is a station with a road stop owned by the town.
C36_Witness ==
    /\ last.op = "UpdateMetroTileOwner"
    /\ last.arg = 0
    /\ GetMetroTrackBits(m8) = TRACK_BIT_NONE
    /\ IsStopTile(tile)
    /\ GetTileOwner(tile) = OWNER_TOWN
    /\ GetMetroTileOwner(tile) = OWNER_NONE

(***************************************************************************)
(* Properties of the road works.                                           *)
(***************************************************************************)
\* C37: StartRoadWorks is called only without road works and leaves road
\* works, on grass when the roadside was barren or grass and paved otherwise;
\* TerminateRoadWorks is called only with road works and leaves none, with the
\* roadside grass after road works on grass and paved after paved road works,
\* and the counter 0; of two calls of these that follow each other one is a
\* start and the other a termination.
C37_RoadWorksAlternate ==
    [][/\ last'.op = "StartRoadWorks" =>
             /\ ~HasRoadWorks(cell)
             /\ HasRoadWorks(cell')
             /\ GetRoadside(cell') = IF GetRoadside(cell) \in {ROADSIDE_BARREN, ROADSIDE_GRASS}
                                     THEN ROADSIDE_GRASS_ROAD_WORKS
                                     ELSE ROADSIDE_PAVED_ROAD_WORKS
       /\ last'.op = "TerminateRoadWorks" =>
             /\ HasRoadWorks(cell)
             /\ ~HasRoadWorks(cell')
             /\ GetRoadside(cell) = ROADSIDE_GRASS_ROAD_WORKS => GetRoadside(cell') = ROADSIDE_GRASS
             /\ GetRoadside(cell) = ROADSIDE_PAVED_ROAD_WORKS => GetRoadside(cell') = ROADSIDE_PAVED
             /\ GetRoadside(cell') \in {ROADSIDE_GRASS, ROADSIDE_PAVED}
             /\ GetRoadWorksCounter(cell') = 0
       /\ last.op = "StartRoadWorks" => last'.op # "StartRoadWorks"
       /\ last.op = "TerminateRoadWorks" => last'.op # "TerminateRoadWorks"]_vars

\* C37 witness: road works have been started on a road with trees, have
\* advanced and have been terminated, and the road is paved.
C37_Witness ==
    /\ last.op = "TerminateRoadWorks"
    /\ GetRoadside(cell) = ROADSIDE_PAVED
    /\ GetRoadWorksCounter(cell) = 0
    /\ ~HasRoadWorks(cell)

\* the tile after n calls of IncreaseRoadWorksCounter, n >= 1, and what the last of them returned
RECURSIVE IncreaseRoadWorksCounterTimes(_, _)
IncreaseRoadWorksCounterTimes(t, n) ==
    IF n = 1 THEN IncreaseRoadWorksCounter(t)
    ELSE IncreaseRoadWorksCounter(IncreaseRoadWorksCounterTimes(t, n - 1).t)

\* C38: IncreaseRoadWorksCounter adds 1 modulo 16 to bits 0-3 of m7 and leaves
\* bits 4-7 of m7 as they were; it returns true exactly when the counter is 15
\* after the call; counted from a counter of 0, the 15th call is the first to
\* return true, and the 16th leaves the counter 0 and returns false.
C38_RoadWorksCounter ==
    [][last'.op = "IncreaseRoadWorksCounter" =>
          /\ GetRoadWorksCounter(cell') = (GetRoadWorksCounter(cell) + 1) % 16
          /\ GB(cell'.m7, 4, 4) = GB(cell.m7, 4, 4)
          /\ last'.ret <=> GetRoadWorksCounter(cell') = 15
          /\ LET t0 == [cell EXCEPT !.m7 = SB(@, 0, 4, 0)]
             IN  /\ \A n \in 1 .. 16 : IncreaseRoadWorksCounterTimes(t0, n).ret <=> n = 15
                 /\ \A n \in 1 .. 16 :
                       GetRoadWorksCounter(IncreaseRoadWorksCounterTimes(t0, n).t) = n % 16
                 /\ \A n \in 1 .. 16 :
                       GB(IncreaseRoadWorksCounterTimes(t0, n).t.m7, 4, 4) = GB(cell.m7, 4, 4)]_vars

\* C38 witness: on a tile with bits set in the upper half of m7 the counter
\* has gone from 15 to 0 and the call has returned false.
C38_Witness ==
    /\ last.op = "IncreaseRoadWorksCounter"
    /\ last.ret = FALSE
    /\ GetRoadWorksCounter(cell) = 0
    /\ GB(cell.m7, 4, 4) # 0

(***************************************************************************)
(* Properties of the depot at a tile index.                                *)
(***************************************************************************)
\* whether a tile is one of the four kinds of depot tile
IsDepotRecord(t) ==
    IsRailDepotTile(t) \/ IsRoadDepotTile(t) \/ IsShipDepotTile(t) \/ IsHangarTile(t)

\* C39: the tile GetDepotTile returns for an index with a depot is valid and
\* is itself a rail depot, road depot, ship depot or hangar tile, whatever
\* records of the four types are at the index.
C39_DepotTileIsDepot ==
    last.op = "GetDepotTile" => IsValid(last.ret) /\ IsDepotRecord(last.ret)

=============================================================================
